---- MODULE Spec2Model ----
(***************************************************************************)
(* Promptr editor extension: the promptr.generatePrompt command handler    *)
(* (access/usage gate, text acquisition, prompt building, transport, leak  *)
(* guard, result delivery) modelled as a state machine.                    *)
(*                                                                         *)
(* Texts are sequences of one-character strings.  Every await of the       *)
(* handler that yields to the host event loop is a separate step, so the   *)
(* user, the other applications and the timers can act in between; code    *)
(* that runs between two such awaits is one atomic step, as it is on the   *)
(* single-threaded event loop.                                             *)
(***************************************************************************)
EXTENDS Integers, Sequences, FiniteSets, TLC

(* ------------------------------------------------------------------ *)
(* Bounds of the model                                                  *)
(* ------------------------------------------------------------------ *)
\* invocations of the command, one after the other, in one behaviour of
\* SpecRepeat
MaxInvocations == 2
\* interferences of the user and the other applications with the invocation
\* of one behaviour of Spec
MaxEnvSteps == 1
\* evaluations of the leak check in one behaviour of SpecLeak
MaxChecks == 4
\* invocations of a user who goes on running the command with nothing to
\* refine: one more than the 10 invocations of a round of the usage counter
MaxAccountRuns == 11
\* times such a user lets the 5 minutes of the auth cache pass
MaxWaits == 1

(* ------------------------------------------------------------------ *)
(* Program constants                                                    *)
(* ------------------------------------------------------------------ *)
AuthCacheTTL == 300000
UsageCheckEvery == 10
PollCount == 5

Null == "null"
\* a string | null value that is null / undefined
NullText == <<"<null>">>
\* a source the acquisition has not read
Unread == <<"<unread>">>
\* originalSelection: vscode.Selection | undefined
Undefined == <<-1, -1, -1, -1>>

(* ------------------------------------------------------------------ *)
(* Characters and texts                                                 *)
(* ------------------------------------------------------------------ *)
UpperCase == <<"A","B","C","D","E","F","G","H","I","J","K","L","M",
               "N","O","P","Q","R","S","T","U","V","W","X","Y","Z">>
LowerCase == <<"a","b","c","d","e","f","g","h","i","j","k","l","m",
               "n","o","p","q","r","s","t","u","v","w","x","y","z">>

\* U+2063 INVISIBLE SEPARATOR (format character, not white space)
ZW == "u2063"

WhiteSpace == {" ", "\n", "\t"}

\* RegExp /i without /u: both sides are canonicalised with toUpperCase
Canonicalize(c) ==
  IF \E k \in 1..26 : LowerCase[k] = c
  THEN UpperCase[CHOOSE k \in 1..26 : LowerCase[k] = c]
  ELSE c

CanonSeq(s) == [k \in 1..Len(s) |-> Canonicalize(s[k])]

\* String.prototype.includes
Includes(s, sub) ==
  \E k \in 0..(Len(s) - Len(sub)) : SubSeq(s, k + 1, k + Len(sub)) = sub

\* String.prototype.trim
RECURSIVE TrimLeft(_)
TrimLeft(s) ==
  IF s # <<>> /\ Head(s) \in WhiteSpace THEN TrimLeft(Tail(s)) ELSE s

RECURSIVE TrimRight(_)
TrimRight(s) ==
  IF s # <<>> /\ s[Len(s)] \in WhiteSpace
  THEN TrimRight(SubSeq(s, 1, Len(s) - 1)) ELSE s

Trim(s) == TrimRight(TrimLeft(s))

\* JavaScript truthiness of a string | null
Truthy(s) == s # NullText /\ s # <<>>

CoreObjectiveHeader ==
  <<"#","#","#"," ","C","O","R","E"," ","O","B","J","E","C","T","I","V","E",
    " ","#","#","#">>
UserContextHeader ==
  <<"#","#","#"," ","U","S","E","R","-","P","R","O","V","I","D","E","D"," ",
    "C","O","N","T","E","X","T"," ","#","#","#">>

\* /### CORE OBJECTIVE ###|### USER-PROVIDED CONTEXT ###/i.test(text)
HeaderPatternTest(text) ==
  \/ Includes(CanonSeq(text), CanonSeq(CoreObjectiveHeader))
  \/ Includes(CanonSeq(text), CanonSeq(UserContextHeader))

\* leaked = aiResponse.includes(sentinel) || /.../i.test(aiResponse)
LeakedNoCaseFold(aiResponse, sentinel) ==
  \/ Includes(aiResponse, sentinel)
  \/ Includes(aiResponse, CoreObjectiveHeader)
  \/ Includes(aiResponse, UserContextHeader)

Leaked(aiResponse, sentinel) ==
  Includes(aiResponse, sentinel) \/ HeaderPatternTest(aiResponse)

OverridePhrases ==
  { <<"I","G","N","O","R","E">>,
    <<"O","V","E","R","R","I","D","E">>,
    <<"D","I","S","R","E","G","A","R","D">>,
    <<"F","O","R","G","E","T"," ","P","R","E","V","I","O","U","S">>,
    <<"S","Y","S","T","E","M"," ","P","R","O","M","P","T">>,
    <<"J","A","I","L","B","R","E","A","K">> }

\* the pattern without its i flag
containsOverridePhrasesExactCase(text) ==
  \E p \in OverridePhrases : Includes(text, p)

\* /(ignore|override|disregard|forget previous|system prompt|jailbreak)/i
containsOverridePhrases(text) ==
  \E p \in OverridePhrases : Includes(CanonSeq(text), CanonSeq(p))

\* `\u2063\u2063PROMPTR_${rand}`
SentinelPrefix == <<ZW, ZW, "P","R","O","M","P","T","R","_">>

\* Math.random().toString(36).slice(2, 7).toUpperCase(): at most 5
\* characters of [0-9A-Z]; fewer when the base-36 expansion is short
\* (0.5 gives "I", 0 gives "").
RandTags ==
  { <<"K","4","P","9","X">>, <<"I">> }

SentinelOf(rand) == SentinelPrefix \o rand

(* ------------------------------------------------------------------ *)
(* Environment values                                                   *)
(* ------------------------------------------------------------------ *)
Procs == {"h1", "h2"}
\* the handler run of a command that is not re-triggered while it runs
Primary == {"h1"}

\* access tokens a user may hold; "premium" is one of the 30 tokens listed
\* in both files, "free" is listed in neither
Tokens == {"free", "premium"}
\* the set of token-auth.ts: 30 tokens
TOKEN_AUTH_PREMIUM_TOKENS == {"premium"}
\* the set of extension.ts ("must match token-auth.ts"): the same 30 tokens
\* and 119 more, of which "premiumLater" is one
VALID_PREMIUM_TOKENS == {"premium", "premiumLater"}
\* the tokens of a check of the access gate on its own
GateTokens == Tokens \cup {"premiumLater"}

Draft == <<"d","r","a","f","t">>
\* the selection of the focused application; the same text is selectable
\* in DocText
ChatSel == <<"b","\n","c">>
Blank == <<" ">>
Suspicious == <<"I","g","n","o","r","e"," ","i","t">>
DocText == <<"a","b","\n","c","d">>

\* what the clipboard may hold before the command runs
ClipTexts == {<<>>, Draft}
\* what the OS-focused application may have selected
FocusTexts == {ChatSel, Suspicious}
\* documents of the editor, and the selections the user may make in them
DocTexts == {<<>>, DocText}
Selections(doc) ==
  IF Len(doc) < 4 THEN {<<0, 0>>} ELSE {<<0, 0>>, <<1, 4>>}

\* win32 and linux take the branches of darwin with another command line
Platforms == {"darwin", "freebsd"}

NoContent ==
  <<"E","r","r","o","r",":"," ","n","o"," ","c","o","n","t","e","n","t">>
Refined == <<"F","i","x",".">>
TwoLines == <<"o","k","\n","g","o">>

\* choices[0].message.content of a 2xx body, for a request with `sentinel`
Contents(sentinel) ==
  { Refined,
    <<" ">> \o TwoLines \o <<"\n">>,
    <<"x">> \o sentinel \o <<"y">>,
    <<"a"," ">> \o [k \in 1..Len(CoreObjectiveHeader) |->
                     IF CoreObjectiveHeader[k] = "C" THEN "c"
                     ELSE CoreObjectiveHeader[k]],
    UserContextHeader \o <<"\n","z">>,
    SentinelOf(<<"Z","Z","Z","Z","Z">>) \o SubSeq(CoreObjectiveHeader, 1, 18) }

\* choices[0].message.content of a 2xx body that holds no text: the empty
\* string, or white space only
EmptyContents == { <<>>, <<" ", "\n">> }

\* the editor as the user may have left it: none active, or one with a
\* document and a selection in it
Editors ==
  { [active |-> a, doc |-> d, sel |-> s] :
      <<a, d, s>> \in { x \in BOOLEAN \X DocTexts \X {<<0, 0>>, <<1, 4>>} :
                          /\ x[3] \in Selections(x[2])
                          /\ x[1] \/ (x[2] = DocText /\ x[3] = <<0, 0>>) } }

\* what the model endpoint may answer to a request with `sentinel`; NullText
\* is a body without choices[0].message.content
Answers(quiet, sentinel) ==
  IF quiet THEN {Refined, <<"x">> \o sentinel \o <<"y">>}
  ELSE Contents(sentinel) \cup {NullText}

\* whether a call of the host or of a server may succeed (TRUE) or fail
Successes(quiet) == IF quiet THEN {TRUE} ELSE BOOLEAN

(* ------------------------------------------------------------------ *)
(* State                                                                *)
(* ------------------------------------------------------------------ *)
VARIABLES
  authStatusCache,       \* let authStatusCache: boolean | null
  lastAuthCheck,         \* let lastAuthCheck
  usageCheckCounter,     \* let usageCheckCounter
  lastUsageAllowed,      \* let lastUsageAllowed: boolean | null
  usageCheckedFor,       \* the token checkUsageLimit gave lastUsageAllowed for
  cachedCodebaseContext, \* let cachedCodebaseContext
  storedToken,           \* context.secrets 'promptr.accessToken'
  ratedOrPrompted,       \* globalState 'promptrRatedOrPrompted'
  configured,            \* SUPABASE_URL and SUPABASE_ANON_KEY are set
  platform,              \* process.platform
  calm,                  \* the host and the servers do not fail
  mayAnswerEmpty,        \* the model endpoint may answer with empty content
  userToken,             \* the access token the user has been given
  clipboard,             \* the OS clipboard
  editor,                \* the text editor: active, doc, sel
  clock,                 \* Date.now()
  inv,                   \* per handler run: locals and what it has done
  sentinels,             \* sentinels of the last two requests, in order
  ratingShown,           \* rating prompts shown so far
  started,               \* invocations started
  envSteps               \* interferences so far

vars == <<authStatusCache, lastAuthCheck, usageCheckCounter, lastUsageAllowed,
          usageCheckedFor,
          cachedCodebaseContext, storedToken, ratedOrPrompted, configured,
          platform, calm, mayAnswerEmpty, userToken, clipboard, editor,
          clock, inv,
          sentinels, ratingShown, started, envSteps>>

gateVars == <<authStatusCache, lastAuthCheck, usageCheckCounter,
              lastUsageAllowed, usageCheckedFor, storedToken>>
hostVars == <<clipboard, editor>>
fixedVars == <<configured, platform, calm, mayAnswerEmpty, userToken>>

NoSources == [sel |-> Unread, probe |-> Unread, clip |-> Unread, doc |-> Unread]

\* locals of one run of the generatePrompt handler before it starts
\* no request body built yet
NoPost == [stop |-> <<>>, system |-> NullText, user |-> NullText]

\* no token validated yet
NoValidation ==
  [token |-> Null, access |-> FALSE, status |-> Null, asked |-> FALSE]

FreshRun ==
  [ pc |-> "idle", now |-> 0, seq |-> 0, token |-> Null, hasEditor |-> FALSE,
    authCached |-> FALSE, authDecision |-> Null,
    usageCached |-> FALSE, usageDecision |-> Null,
    atStart |-> NullText, atStartSel |-> Undefined,
    src |-> NoSources, method |-> 0, beforeClip |-> NullText, pollK |-> 0,
    selectedText |-> <<>>, originalSelection |-> Undefined,
    sentinel |-> NullText, req |-> "none", promise |-> "none",
    timedOut |-> FALSE, lateData |-> FALSE, noContent |-> FALSE,
    keys |-> [copyKey |-> 0, pasteKey |-> 0],
    validation |-> NoValidation, usageAsked |-> FALSE,
    post |-> NoPost, checkedWith |-> NullText, route |-> "none",
    aiResponse |-> NullText, leaked |-> Null, result |-> "none",
    trace |-> <<>> ]

\* what a run has done, in order; an operation repeated without another in
\* between is recorded once
Log(r, e) ==
  IF r.trace # <<>> /\ r.trace[Len(r.trace)] = e THEN r
  ELSE [r EXCEPT !.trace = Append(@, e)]
\* an operation of the handler
Ev(r, e) == Log(r, <<"op", e>>)
\* a message shown to the user
Notice(r, n) == Log(r, <<"notice", n>>)
\* an OS automation command for the keystroke k is started (execAsync)
Key(r, k) == Ev([r EXCEPT !.keys[k] = @ + 1], k)
\* the handler's promise settles
Return(r) == [r EXCEPT !.pc = "done", !.result = "fulfilled"]
Throw(r) == [r EXCEPT !.pc = "done", !.result = "rejected"]

BoolStr(b) == IF b THEN "true" ELSE "false"

\* document.getText(selection)
SelText(ed) == SubSeq(ed.doc, ed.sel[1] + 1, ed.sel[2])
\* selection.isEmpty
SelEmpty(ed) == ed.sel[1] = ed.sel[2]

Init ==
  /\ authStatusCache = Null
  /\ lastAuthCheck = 0
  /\ usageCheckCounter = 0
  /\ lastUsageAllowed = Null
  /\ usageCheckedFor = Null
  /\ cachedCodebaseContext = Null
  /\ userToken \in Tokens
  /\ storedToken \in {userToken, Null}
  /\ ratedOrPrompted = FALSE
  /\ configured \in BOOLEAN
  /\ platform \in Platforms
  /\ calm = FALSE
  /\ mayAnswerEmpty = FALSE
  /\ clipboard \in ClipTexts
  /\ editor \in Editors
  /\ clock = AuthCacheTTL + 1
  /\ inv = [i \in Procs |-> FreshRun]
  /\ sentinels = <<>>
  /\ ratingShown = 0
  /\ started = 0
  /\ envSteps = 0

\* the initial states of the overlapping runs: a signed-in user of the free
\* plan on macOS, an empty clipboard, either no editor or an editor with a
\* selection, and a host and servers that do not fail
InitOverlap ==
  /\ authStatusCache = Null
  /\ lastAuthCheck = 0
  /\ usageCheckCounter = 0
  /\ lastUsageAllowed = Null
  /\ usageCheckedFor = Null
  /\ cachedCodebaseContext = Null
  /\ userToken = "free"
  /\ storedToken = "free"
  /\ ratedOrPrompted = FALSE
  /\ configured = TRUE
  /\ platform = "darwin"
  /\ calm = TRUE
  /\ mayAnswerEmpty = FALSE
  /\ clipboard = <<>>
  /\ editor \in {e \in Editors : e.active => e.sel # <<0, 0>>}
  /\ clock = AuthCacheTTL + 1
  /\ inv = [i \in Procs |-> FreshRun]
  /\ sentinels = <<>>
  /\ ratingShown = 0
  /\ started = 0
  /\ envSteps = 0

(* ------------------------------------------------------------------ *)
(* Host editor surface                                                  *)
(* ------------------------------------------------------------------ *)
\* number of "\n" in text
RECURSIVE CountNL(_)
CountNL(text) ==
  IF text = <<>> THEN 0
  ELSE (IF Head(text) = "\n" THEN 1 ELSE 0) + CountNL(Tail(text))

\* length of the text after its last "\n": text.split('\n').pop().length
RECURSIVE LastLineLen(_)
LastLineLen(text) ==
  IF text = <<>> \/ text[Len(text)] = "\n" THEN 0
  ELSE 1 + LastLineLen(SubSeq(text, 1, Len(text) - 1))

\* document.positionAt(offset) as <<line, character>>
PositionAt(doc, off) ==
  <<CountNL(SubSeq(doc, 1, off)), LastLineLen(SubSeq(doc, 1, off))>>

\* document.offsetAt(position); the host clamps a position to the document
OffsetAt(doc, pos) ==
  LET offs == {o \in 0..Len(doc) : PositionAt(doc, o)[1] = pos[1]}
      onLine == {o \in offs : PositionAt(doc, o)[2] <= pos[2]}
  IN  IF offs = {} THEN Len(doc)
      ELSE IF onLine = {} THEN CHOOSE o \in offs : \A q \in offs : o <= q
      ELSE CHOOSE o \in onLine : \A q \in onLine : q <= o

\* editor.selection as a Selection of positions <<sl, sc, el, ec>>
SelectionOf(ed) ==
  PositionAt(ed.doc, ed.sel[1]) \o PositionAt(ed.doc, ed.sel[2])

\* document.getText(range)
RangeText(doc, range) ==
  SubSeq(doc, OffsetAt(doc, <<range[1], range[2]>>) + 1,
         OffsetAt(doc, <<range[3], range[4]>>))

\* editBuilder.replace(range, text) applied to the document
ReplaceRange(doc, range, text) ==
  LET s == OffsetAt(doc, <<range[1], range[2]>>)
      e == OffsetAt(doc, <<range[3], range[4]>>)
  IN  SubSeq(doc, 1, s) \o text \o SubSeq(doc, e + 1, Len(doc))

\* the end computed as for a response of one line, whatever the response
NewSelectionOneLine(originalSelection, aiResponse) ==
  << originalSelection[1], originalSelection[2],
     originalSelection[1], originalSelection[2] + Len(aiResponse) >>

\* lines 438-446: new vscode.Selection(originalSelection.start, new Position(...))
NewSelection(originalSelection, aiResponse) ==
  LET n == CountNL(aiResponse) + 1
  IN  << originalSelection[1], originalSelection[2],
         originalSelection[1] + n - 1,
         IF n = 1 THEN originalSelection[2] + Len(aiResponse)
         ELSE LastLineLen(aiResponse) >>

(* ------------------------------------------------------------------ *)
(* generatePromptCmd: from the acquired text to the model request       *)
(* ------------------------------------------------------------------ *)
\* the source classified without the selection range being kept
ClassifyNoRange(r, retrievedText, ed) ==
  IF Truthy(retrievedText) THEN [r EXCEPT !.selectedText = retrievedText]
  ELSE r

\* lines 352-364: selectedText, originalSelection, textSource
Classify(r, retrievedText, ed) ==
  IF Truthy(retrievedText)
  THEN IF r.hasEditor /\ ~SelEmpty(ed) /\ SelText(ed) = retrievedText
       THEN [r EXCEPT !.selectedText = retrievedText,
                      !.originalSelection = SelectionOf(ed)]
       ELSE [r EXCEPT !.selectedText = retrievedText]
  ELSE r

\* lines 366-371: full document as fallback
FullDocumentFallback(r, ed) ==
  IF r.selectedText = <<>> /\ r.hasEditor
  THEN [r EXCEPT !.selectedText = ed.doc, !.src.doc = ed.doc,
                 !.method = IF ed.doc = <<>> THEN 0 ELSE 4]
  ELSE r

\* lines 399-408 and 1029-1036: withProgress -> aiCall -> await getCodebaseContext
AiCallStart(r) == [r EXCEPT !.pc = "codebase"]

\* the request prepared without looking at what was acquired
AfterAcquireUnchecked(r, retrievedText, ed) ==
  AiCallStart(Ev(FullDocumentFallback(Classify(r, retrievedText, ed), ed),
                 "acquireEnd"))

\* lines 352-408, run when getSelectedTextCrossPlatform has returned
AfterAcquire(r, retrievedText, ed) ==
  LET r1 == Ev(FullDocumentFallback(Classify(r, retrievedText, ed), ed),
               "acquireEnd")
  IN  IF r1.selectedText = <<>> THEN Return(Notice(r1, "selectText"))
      ELSE IF containsOverridePhrases(r1.selectedText) THEN Return(r1)
      ELSE AiCallStart(r1)

\* Method 1 skipped: the copy probe runs although the editor has a selection
Method1Skipped(r, ed) ==
  Ev([r EXCEPT !.src.sel = NullText, !.pc = "copySnap"], "clipRead")

\* lines 264-281 and 163-165, 200-211: Method 1, else Method 2 up to the
\* clipboard snapshot of autoCopy
Method1(r, ed) ==
  IF ed.active /\ ~SelEmpty(ed)
  THEN AfterAcquire([r EXCEPT !.src.sel = SelText(ed), !.method = 1],
                    SelText(ed), ed)
  ELSE Ev([r EXCEPT !.src.sel = NullText, !.pc = "copySnap"], "clipRead")

\* lines 344-350: editor captured, getSelectedTextCrossPlatform called
AcquireStart(r, ed) ==
  Method1(Ev([r EXCEPT !.hasEditor = ed.active,
                       !.atStart = IF ed.active /\ ~SelEmpty(ed)
                                   THEN SelText(ed) ELSE NullText,
                       !.atStartSel = IF ed.active /\ ~SelEmpty(ed)
                                      THEN SelectionOf(ed) ELSE Undefined],
             "acquireStart"), ed)

(* ------------------------------------------------------------------ *)
(* generatePromptCmd: access / usage gate                               *)
(* ------------------------------------------------------------------ *)
\* lines 312-320: if (!authStatusCache) return; else await getStoredToken()
AuthDecidedIgnored(r, cache) ==
  Ev([r EXCEPT !.authDecision = cache, !.pc = "token"], "getStoredToken")

AuthDecided(r, cache) ==
  IF cache # "true" THEN Return([r EXCEPT !.authDecision = cache])
  ELSE Ev([r EXCEPT !.authDecision = cache, !.pc = "token"], "getStoredToken")

\* lines 332-350: if (!lastUsageAllowed) return; else acquisition starts
UsageDecidedIgnored(r, allowed, ed) ==
  AcquireStart([r EXCEPT !.usageDecision = allowed], ed)

UsageDecided(r, allowed, ed) ==
  IF allowed # "true" THEN Return([r EXCEPT !.usageDecision = allowed])
  ELSE AcquireStart([r EXCEPT !.usageDecision = allowed], ed)

\* a failed usage check taken for an allowance: the handler goes on to the
\* acquisition
UsageCheckRejectsProceeds(r) == AcquireStart(r, editor)

\* checkUsageLimit lines 955-1022: the promise built inside the try block is
\* returned without await, so its rejection passes the catch of line 1023
\* and leaves the handler at line 329
UsageCheckRejects(r) == Throw(r)

UsageOutcomes ==
  {"allowed", "denied", "http_error", "parse_error", "net_error", "timeout"}

\* lines 302-310: the command starts; checkUserAccess unless cached
Start(i, now) ==
  /\ inv[i].pc \in {"idle", "done"}
  /\ started' = started + 1
  /\ clock' = now
  /\ LET r0 == [FreshRun EXCEPT !.now = now, !.seq = started + 1,
                               !.result = "running"]
     IN  inv' = [inv EXCEPT ![i] =
           IF authStatusCache = Null \/ now - lastAuthCheck > AuthCacheTTL
           THEN Ev([r0 EXCEPT !.pc = "auth"], "checkUserAccess")
           ELSE AuthDecided([r0 EXCEPT !.authCached = TRUE], authStatusCache)]
  /\ UNCHANGED <<gateVars, fixedVars, ratedOrPrompted, sentinels,
                 ratingShown, envSteps>>

\* token-auth.ts validateAccessToken: a premium token is granted 'pro' at
\* once; any other token needs the Supabase configuration and then the
\* answer of the validate-token function (access is FALSE too when the
\* request fails); asked tells whether a request was issued
validateAccessToken(token, config, access) ==
  IF token \in TOKEN_AUTH_PREMIUM_TOKENS
  THEN [token |-> token, access |-> TRUE, status |-> "pro", asked |-> FALSE]
  ELSE IF ~config
  THEN [token |-> token, access |-> FALSE, status |-> Null, asked |-> FALSE]
  ELSE [token |-> token, access |-> access,
        status |-> IF access THEN "active" ELSE "inactive", asked |-> TRUE]

\* checkUserAccess without the clearStoredToken of its else branch: the
\* token stays in storage when access is not granted
checkUserAccessKeepsToken(stored, input, config, access, retry) ==
  LET tok == IF stored # Null THEN stored ELSE input
      result == validateAccessToken(tok, config, access)
  IN  [ inputBox |-> stored = Null, token |-> tok, validation |-> result,
        notice |-> IF tok = Null THEN "enterToken"
                   ELSE IF result.access THEN Null ELSE "invalidToken",
        stored |-> tok,
        returns |-> IF tok = Null THEN "false"
                    ELSE IF result.access THEN "true"
                    ELSE IF retry THEN "again" ELSE "false" ]

\* token-auth.ts checkUserAccess, one pass of its body: the input box when no
\* token is stored, the token stored, validated, and deleted again when
\* access is not granted; returns is "again" when the user has chosen
\* 'Enter New Token' and the function calls itself
checkUserAccess(stored, input, config, access, retry) ==
  LET tok == IF stored # Null THEN stored ELSE input
      result == validateAccessToken(tok, config, access)
  IN  [ inputBox |-> stored = Null,
        token |-> tok,
        validation |-> result,
        notice |-> IF tok = Null THEN "enterToken"
                   ELSE IF result.access THEN Null ELSE "invalidToken",
        stored |-> IF tok # Null /\ result.access THEN tok ELSE Null,
        returns |-> IF tok = Null THEN "false"
                    ELSE IF result.access THEN "true"
                    ELSE IF retry THEN "again" ELSE "false" ]

\* checkUserAccess called by the handler, then lines 308-315
CheckUserAccessReturns(i) ==
  /\ inv[i].pc = "auth"
  /\ \E input \in {userToken, Null}, access \in Successes(calm),
        retry \in BOOLEAN :
       LET c == checkUserAccess(storedToken, input, configured, access, retry)
           r0 == IF c.token = Null THEN inv[i]
                 ELSE [inv[i] EXCEPT !.validation = c.validation]
           r == IF c.notice = Null THEN r0 ELSE Notice(r0, c.notice)
       IN  /\ storedToken' = c.stored
           /\ IF c.returns = "again"
              THEN /\ inv' = [inv EXCEPT ![i] = r]
                   /\ UNCHANGED <<authStatusCache, lastAuthCheck>>
              ELSE /\ authStatusCache' = c.returns
                   /\ lastAuthCheck' = inv[i].now
                   /\ inv' = [inv EXCEPT ![i] = AuthDecided(r, c.returns)]
  /\ UNCHANGED <<usageCheckCounter, lastUsageAllowed, usageCheckedFor,
                 hostVars, fixedVars, cachedCodebaseContext, ratedOrPrompted,
                 clock, sentinels, ratingShown, started, envSteps>>

\* activate lines 622-634: with promptr.autoValidate (default true) the
\* activation calls checkUserAccess and swallows only a rejection of its
\* promise; the result does not reach authStatusCache
ActivationCheckReturns(i) ==
  /\ inv[i].pc = "activation"
  /\ \E input \in {userToken, Null}, access \in Successes(calm),
        retry \in BOOLEAN :
       LET c == checkUserAccess(storedToken, input, configured, access, retry)
           \* the input box is recorded the first time it is shown
           shown == \E k \in DOMAIN inv[i].trace :
                      inv[i].trace[k] = <<"op", "showInputBox">>
           r0 == IF c.inputBox /\ ~shown
                 THEN Ev(inv[i], "showInputBox") ELSE inv[i]
           r1 == IF c.token = Null THEN r0
                 ELSE [r0 EXCEPT !.validation = c.validation]
           r == IF c.notice = Null THEN r1 ELSE Notice(r1, c.notice)
       IN  /\ storedToken' = c.stored
           /\ inv' = [inv EXCEPT ![i] =
                        IF c.returns = "again" THEN r ELSE Return(r)]
  /\ UNCHANGED <<authStatusCache, lastAuthCheck, usageCheckCounter,
                 lastUsageAllowed, usageCheckedFor, hostVars, fixedVars,
                 cachedCodebaseContext,
                 ratedOrPrompted, clock, sentinels, ratingShown, started,
                 envSteps>>

\* the usage decision cached for every request: a check only when none is
\* known yet
UsageCheckDueWhenUnknown(counter, last) == last = Null

\* line 328: if (usageCheckCounter % 10 === 0 || lastUsageAllowed === null)
UsageCheckDue(counter, last) ==
  counter % UsageCheckEvery = 0 \/ last = Null

\* lines 320-335 with checkUsageLimit lines 935-949
GetStoredTokenReturns(i) ==
  /\ inv[i].pc = "token"
  /\ LET r == [inv[i] EXCEPT !.token = storedToken]
         rc == Ev(r, "checkUsageLimit")
     IN  IF storedToken = Null
         THEN /\ inv' = [inv EXCEPT ![i] = Return(Notice(r, "enterToken"))]
              /\ UNCHANGED <<usageCheckCounter, lastUsageAllowed,
                             usageCheckedFor>>
         ELSE IF UsageCheckDue(usageCheckCounter, lastUsageAllowed)
         THEN IF storedToken \in VALID_PREMIUM_TOKENS
              THEN /\ lastUsageAllowed' = "true"
                   /\ usageCheckedFor' = storedToken
                   /\ usageCheckCounter' = usageCheckCounter + 1
                   /\ inv' = [inv EXCEPT ![i] = UsageDecided(rc, "true", editor)]
              ELSE IF ~configured
              THEN /\ lastUsageAllowed' = "false"
                   /\ usageCheckedFor' = storedToken
                   /\ usageCheckCounter' = usageCheckCounter + 1
                   /\ inv' = [inv EXCEPT ![i] = UsageDecided(rc, "false", editor)]
              ELSE /\ inv' = [inv EXCEPT ![i] =
                             [rc EXCEPT !.pc = "usage", !.usageAsked = TRUE]]
                   /\ UNCHANGED <<usageCheckCounter, lastUsageAllowed,
                             usageCheckedFor>>
         ELSE /\ usageCheckCounter' = usageCheckCounter + 1
              /\ inv' = [inv EXCEPT ![i] =
                           UsageDecided([r EXCEPT !.usageCached = TRUE],
                                        lastUsageAllowed, editor)]
              /\ UNCHANGED <<lastUsageAllowed, usageCheckedFor>>
  /\ UNCHANGED <<authStatusCache, lastAuthCheck, storedToken, hostVars,
                 fixedVars, cachedCodebaseContext, ratedOrPrompted, clock,
                 sentinels, ratingShown, started, envSteps>>

\* checkUsageLimit lines 971-1017, then lines 329-335
UsageCheckReturns(i) ==
  /\ inv[i].pc = "usage"
  /\ \E outcome \in (IF calm THEN {"allowed"} ELSE UsageOutcomes) :
       LET r == inv[i]
       IN  CASE outcome = "allowed" ->
                  /\ lastUsageAllowed' = "true"
                  /\ usageCheckedFor' = r.token
                  /\ usageCheckCounter' = usageCheckCounter + 1
                  /\ inv' = [inv EXCEPT ![i] = UsageDecided(r, "true", editor)]
             [] outcome = "denied" ->
                  /\ lastUsageAllowed' = "false"
                  /\ usageCheckedFor' = r.token
                  /\ usageCheckCounter' = usageCheckCounter + 1
                  /\ inv' = [inv EXCEPT ![i] =
                       UsageDecided(Notice(r, "usageLimit"), "false", editor)]
             [] OTHER ->
                  /\ inv' = [inv EXCEPT ![i] = UsageCheckRejects(r)]
                  /\ UNCHANGED <<usageCheckCounter, lastUsageAllowed,
                             usageCheckedFor>>
  /\ UNCHANGED <<authStatusCache, lastAuthCheck, storedToken, hostVars,
                 fixedVars, cachedCodebaseContext, ratedOrPrompted, clock,
                 sentinels, ratingShown, started, envSteps>>

(* ------------------------------------------------------------------ *)
(* Text acquisition: autoCopy, getChatSelectedText, clipboard fallback  *)
(* ------------------------------------------------------------------ *)
KeystrokePlatforms == {"darwin", "win32", "linux"}

\* a string read that yields text: `s && s.trim()`
NonBlank(s) == Truthy(s) /\ Trim(s) # <<>>

\* the copy keystroke sent once more when the first probe is over
AutoCopyRetries(r) ==
  IF r.keys.copyKey = 1
  THEN Key([r EXCEPT !.pollK = 0, !.pc = "copyExec"], "copyKey")
  ELSE [r EXCEPT !.beforeClip = NullText, !.pollK = 0, !.pc = "settle"]

\* autoCopy returns (lines 251-258), getChatSelectedText waits 150 ms
AutoCopyEnds(r) ==
  [r EXCEPT !.beforeClip = NullText, !.pollK = 0, !.pc = "settle"]

\* autoCopy lines 211-237: clipboard snapshot, then the copy keystroke
CopySnapshotReturns(i) ==
  /\ inv[i].pc = "copySnap"
  /\ \E ok \in Successes(calm) :
       LET r == inv[i]
       IN  inv' = [inv EXCEPT ![i] =
             IF ~ok THEN AutoCopyEnds(r)
             ELSE IF platform \in KeystrokePlatforms
             THEN Key([r EXCEPT !.beforeClip = clipboard, !.pc = "copyExec"],
                      "copyKey")
             ELSE AutoCopyEnds(r)]
  /\ UNCHANGED <<gateVars, hostVars, fixedVars, cachedCodebaseContext,
                 ratedOrPrompted, clock, sentinels, ratingShown, started,
                 envSteps>>

\* the clipboard overwritten even when the copy keystroke was not sent
CopiedAnyway(sent, focusText, clip) == focusText

\* autoCopy lines 216-237: the keystroke is all the extension does; the
\* focused application, if the keystroke reached it, copies its selection
Copied(sent, focusText, clip) == IF sent THEN focusText ELSE clip

\* autoCopy lines 216-240: the OS automation command ends; when it worked
\* the focused application copies its selection, if it has one
CopyExecReturns(i) ==
  /\ inv[i].pc = "copyExec"
  /\ \E sent \in Successes(calm), t \in FocusTexts \cup {clipboard} :
       LET r == inv[i]
       IN  /\ clipboard' = Copied(sent, t, clipboard)
           /\ inv' = [inv EXCEPT ![i] =
                IF sent THEN [r EXCEPT !.pollK = 0, !.pc = "poll"]
                ELSE AutoCopyEnds(r)]
  /\ UNCHANGED <<gateVars, editor, fixedVars, cachedCodebaseContext,
                 ratedOrPrompted, clock, sentinels, ratingShown, started,
                 envSteps>>

\* autoCopy lines 240-249: one round of the clipboard poll
PollReturns(i) ==
  /\ inv[i].pc = "poll"
  /\ \E ok \in Successes(calm) :
       LET r == Ev(inv[i], "clipRead")
       IN  inv' = [inv EXCEPT ![i] =
             IF ~ok THEN AutoCopyEnds(r)
             ELSE IF Truthy(clipboard) /\ clipboard # r.beforeClip
             THEN AutoCopyEnds(r)
             ELSE IF r.pollK + 1 >= PollCount
             THEN AutoCopyEnds(r)
             ELSE [r EXCEPT !.pollK = @ + 1]]
  /\ UNCHANGED <<gateVars, hostVars, fixedVars, cachedCodebaseContext,
                 ratedOrPrompted, clock, sentinels, ratingShown, started,
                 envSteps>>

\* getChatSelectedText lines 167-192 (Method 2), then line 286 is called
SettleReturns(i) ==
  /\ inv[i].pc = "settle"
  /\ \E ok \in Successes(calm) :
       LET r == Ev(inv[i], "clipRead")
       IN  inv' = [inv EXCEPT ![i] =
             IF ok /\ NonBlank(clipboard)
             THEN AfterAcquire([r EXCEPT !.src.probe = clipboard, !.method = 2],
                               clipboard, editor)
             ELSE Ev([r EXCEPT !.src.probe = NullText,
                               !.pc = "clipFallback"], "clipRead")]
  /\ UNCHANGED <<gateVars, hostVars, fixedVars, cachedCodebaseContext,
                 ratedOrPrompted, clock, sentinels, ratingShown, started,
                 envSteps>>

\* getSelectedTextCrossPlatform lines 283-296 (Method 3), then lines 352-408
ClipFallbackReturns(i) ==
  /\ inv[i].pc = "clipFallback"
  /\ \E ok \in Successes(calm) :
       LET r == inv[i]
       IN  inv' = [inv EXCEPT ![i] =
             IF ok /\ NonBlank(clipboard)
             THEN AfterAcquire([r EXCEPT !.src.clip = clipboard, !.method = 3],
                               clipboard, editor)
             ELSE AfterAcquire(
                    [r EXCEPT !.src.clip = NullText],
                    NullText, editor)]
  /\ UNCHANGED <<gateVars, hostVars, fixedVars, cachedCodebaseContext,
                 ratedOrPrompted, clock, sentinels, ratingShown, started,
                 envSteps>>

(* ------------------------------------------------------------------ *)
(* aiCall: prompt building and request/response transport               *)
(* ------------------------------------------------------------------ *)
\* generateSentinel lines 757-760
generateSentinel(rand) == SentinelOf(rand)

\* promptr.customContext as the user may have set it (line 1039 trims it)
CustomContexts == { <<" ">>, <<"T","S"," ">> }

\* the parts of the fixed instruction template, each a single element
RoleTemplate == <<"You are a **senior product designer** ...">>
CodebaseHeader == "### CODEBASE CONTEXT ###"
IntegrationPriority == "- **INTEGRATION PRIORITY:** ..."
ExecuteImmediately == "**EXECUTE IMMEDIATELY:** ..."

\* line 1051: the analysis found a project type, language, framework or
\* dependency
HasSignals(codebaseContext) == codebaseContext # Null

\* lines 1052: the codebase-context block
CodebaseBlock(codebaseContext) ==
  <<"\n", "\n", CodebaseHeader, "\n", codebaseContext,
    "**INTEGRATION DIRECTIVE:** ...">>

\* lines 1055-1121: the template from CORE OBJECTIVE to the end
TemplateBody(codebaseContext) ==
  <<"\n", "\n">> \o CoreObjectiveHeader
    \o <<"\n", "### OUTPUT STRUCTURE ### ...">>
    \o (IF HasSignals(codebaseContext) THEN <<IntegrationPriority>>
        ELSE <<>>)
    \o <<"\n", ExecuteImmediately>>

\* lines 1043-1121: contextualPrompt
BuildPrompt(sentinel, userContext, codebaseContext) ==
  sentinel \o <<" ">>
    \o (IF Truthy(userContext)
        THEN UserContextHeader \o <<"\n">> \o userContext \o <<"\n", "\n">>
        ELSE <<>>)
    \o RoleTemplate
    \o (IF HasSignals(codebaseContext) THEN CodebaseBlock(codebaseContext)
        ELSE <<>>)
    \o TemplateBody(codebaseContext)

\* the request body with the stop list of the fixed PROMPTR_SYS marker
PostDataFixedStop(sentinel, contextualPrompt, input) ==
  [stop |-> << <<"P","R","O","M","P","T","R","_","S","Y","S">> >>,
   system |-> contextualPrompt, user |-> input]

\* lines 1123-1132: postData (model, temperature and max_tokens left out)
PostData(sentinel, contextualPrompt, input) ==
  [stop |-> <<sentinel>>, system |-> contextualPrompt, user |-> input]

\* the record of the requests' sentinels keeps the last two
LastTwo(q) == IF Len(q) > 2 THEN Tail(q) ELSE q

\* lines 424-463: the route of the delivery; editor.edit or autoPaste is
\* called and awaited
\* the route taken whenever an editor is there, selection or not
DeliveryStartAnyEditor(r) ==
  IF r.hasEditor
  THEN [r EXCEPT !.pc = "edit", !.route = "editor"]
  ELSE [r EXCEPT !.pc = "pasteWrite", !.route = "paste"]

DeliveryStart(r) ==
  IF r.hasEditor /\ r.originalSelection # Undefined
  THEN [r EXCEPT !.pc = "edit", !.route = "editor"]
  ELSE [r EXCEPT !.pc = "pasteWrite", !.route = "paste"]

\* lines 408-417 and 424-427 without the return at line 415
AfterAiCallDelivers(r) ==
  LET leaked == Leaked(r.aiResponse, r.sentinel)
      r1 == Ev([r EXCEPT !.leaked = BoolStr(leaked)], "leakCheck")
  IN  IF leaked THEN DeliveryStart(Notice(r1, "blocked"))
      ELSE DeliveryStart(r1)

\* lines 408-417 and 424-427: leak check, then delivery
AfterAiCall(r) ==
  LET leaked == Leaked(r.aiResponse, r.sentinel)
      r1 == Ev([r EXCEPT !.leaked = BoolStr(leaked),
                         !.checkedWith = r.sentinel], "leakCheck")
  IN  IF leaked THEN Return(Notice(r1, "blocked")) ELSE DeliveryStart(r1)

\* the catch showing err.message: the status line, 'Request timeout' or the
\* text of the transport error
CatchAiFailureDetailed(r) ==
  Return(Notice(r, IF r.timedOut THEN "Request timeout"
                   ELSE IF r.req = "errored" THEN "err.message"
                   ELSE "HTTP status: data"))

\* lines 418-422: catch of the aiCall failure; the message shown is the
\* literal 'AI request failed. Please try again.', err goes to the log
CatchAiFailure(r) == Return(Notice(r, "aiFailed"))

\* the request body once the promise has settled: the prompt is referenced
\* no more, the stop list is kept as the record of what was sent
Settled(post) == [post EXCEPT !.system = NullText]

\* resolve(...) of the aiCall promise; a settled promise stays as it is
Resolve(r, response) ==
  IF r.promise = "pending"
  THEN AfterAiCall([r EXCEPT !.promise = "resolved", !.aiResponse = response,
                             !.post = Settled(r.post)])
  ELSE r

\* reject(...) of the aiCall promise
Reject(r) ==
  IF r.promise = "pending"
  THEN CatchAiFailure([r EXCEPT !.promise = "rejected",
                                !.post = Settled(r.post)])
  ELSE r

\* the body handled on a 'data' chunk, before the response has ended
OnEndEarly(r, status, parses, content) ==
  IF status # "2xx" \/ ~parses THEN Reject(r)
  ELSE Resolve([r EXCEPT !.noContent = (content = NullText)],
               Trim(IF content = NullText THEN NoContent ELSE content))

\* a body without choices[0].message.content taken as a failure
OnEndNoContentFails(r, status, parses, content) ==
  IF status # "2xx" \/ ~parses THEN Reject(Ev(r, "responseEnd"))
  ELSE IF content = NullText
  THEN Reject(Ev([r EXCEPT !.noContent = TRUE], "responseEnd"))
  ELSE Resolve(Ev(r, "responseEnd"), Trim(content))

\* lines 1154-1170: res.on('end'); noContent records that the parsed body
\* had no choices[0].message.content (line 1164)
OnEnd(r, status, parses, content) ==
  IF status # "2xx" \/ ~parses THEN Reject(Ev(r, "responseEnd"))
  ELSE Resolve(Ev([r EXCEPT !.noContent = (content = NullText)],
                  "responseEnd"),
               Trim(IF content = NullText THEN NoContent ELSE content))

\* lines 1173-1177: req.on('error')
OnError(r) == Reject([r EXCEPT !.req = "errored"])

\* lines 1179-1183: req.on('timeout') without req.destroy()
OnTimeoutAbandon(r) == Reject([r EXCEPT !.timedOut = TRUE])

\* lines 1179-1183: req.on('timeout')
OnTimeout(r) ==
  Reject(Ev([r EXCEPT !.req = "destroyed", !.timedOut = TRUE],
            "requestDestroyed"))

\* getCodebaseContext lines 137-143, then aiCall lines 1041-1187: sentinel,
\* system prompt, request body, request written
CodebaseContextReturns(i) ==
  /\ inv[i].pc = "codebase"
  /\ \E analysed \in (IF calm THEN {"known"} ELSE {Null, "known"}),
        rand \in RandTags,
        customContext \in (IF calm THEN {<<" ">>} ELSE CustomContexts) :
       LET r == inv[i]
           codebaseContext ==
             IF cachedCodebaseContext # Null THEN cachedCodebaseContext
             ELSE analysed
           sentinel == generateSentinel(rand)
           contextualPrompt ==
             BuildPrompt(sentinel, Trim(customContext), codebaseContext)
       IN  /\ cachedCodebaseContext' = codebaseContext
           /\ sentinels' = LastTwo(Append(sentinels, sentinel))
           /\ inv' = [inv EXCEPT ![i] =
                Ev(Ev([r EXCEPT !.sentinel = sentinel, !.req = "inflight",
                                !.post = PostData(sentinel, contextualPrompt,
                                                  r.selectedText),
                                !.promise = "pending", !.pc = "request"],
                      "promptBuilt"), "requestWritten")]
  /\ UNCHANGED <<gateVars, hostVars, fixedVars, ratedOrPrompted, clock,
                 ratingShown, started, envSteps>>

\* the response of the model endpoint has been received in full
ResponseEnds(i) ==
  /\ inv[i].req = "inflight"
  /\ \E status \in (IF calm THEN {"2xx"} ELSE {"2xx", "500"}),
        parses \in Successes(calm),
        content \in Answers(calm, inv[i].sentinel)
                      \cup (IF mayAnswerEmpty THEN EmptyContents ELSE {}) :
       \* the content of a body that is not read is left out
       /\ status # "2xx" \/ ~parses => content = NullText
       /\ inv' = [inv EXCEPT ![i] =
                   OnEnd([inv[i] EXCEPT !.req = "ended"], status, parses,
                         content)]
  /\ UNCHANGED <<gateVars, hostVars, fixedVars, cachedCodebaseContext,
                 ratedOrPrompted, clock, sentinels, ratingShown, started,
                 envSteps>>

\* the connection fails
RequestErrors(i) ==
  /\ inv[i].req = "inflight"
  /\ inv' = [inv EXCEPT ![i] = OnError(inv[i])]
  /\ UNCHANGED <<gateVars, hostVars, fixedVars, cachedCodebaseContext,
                 ratedOrPrompted, clock, sentinels, ratingShown, started,
                 envSteps>>

\* the socket has been idle for the 30 s of req.setTimeout
RequestTimesOut(i) ==
  /\ inv[i].req = "inflight"
  /\ inv' = [inv EXCEPT ![i] = OnTimeout(inv[i])]
  /\ UNCHANGED <<gateVars, hostVars, fixedVars, cachedCodebaseContext,
                 ratedOrPrompted, clock, sentinels, ratingShown, started,
                 envSteps>>

\* response data that arrives for a request after its timeout: if the
\* request was left open the 'end' handler runs with it
LateResponse(i) ==
  /\ inv[i].timedOut
  /\ ~inv[i].lateData
  /\ \E content \in Answers(calm, inv[i].sentinel) \ {NullText} :
       inv' = [inv EXCEPT ![i] =
                 IF inv[i].req = "destroyed"
                 THEN [inv[i] EXCEPT !.lateData = TRUE]
                 ELSE OnEnd([inv[i] EXCEPT !.lateData = TRUE, !.req = "ended"],
                            "2xx", TRUE, content)]
  /\ UNCHANGED <<gateVars, hostVars, fixedVars, cachedCodebaseContext,
                 ratedOrPrompted, clock, sentinels, ratingShown, started,
                 envSteps>>

(* ------------------------------------------------------------------ *)
(* Result delivery                                                      *)
(* ------------------------------------------------------------------ *)
\* maybePromptForRating lines 1242-1256 up to the awaited prompt
RatingStart(r, already) ==
  IF already THEN Return(r) ELSE [r EXCEPT !.pc = "rating"]

\* lines 450-451 and 460-461: success notification, then the rating prompt
Success(r, already) == RatingStart(Notice(r, "ready"), already)

\* package.json, promptr.insertMode: the values of the setting; lines 426-463
\* do not read it, so every delivery is a delivery under each of them
InsertModes == {"replace", "below"}

\* the clipboard copy and the re-selection entered whatever editor.edit said
AfterEditUnchecked(r, editSuccess) ==
  IF editSuccess THEN Ev([r EXCEPT !.pc = "editClip"], "edit")
  ELSE [r EXCEPT !.pc = "editClip"]

\* lines 434 and 453-456: if (editSuccess) { ... } else { showErrorMessage }
\* (the operation "edit" of a run is an edit the host applied)
AfterEdit(r, editSuccess) ==
  IF editSuccess THEN Ev([r EXCEPT !.pc = "editClip"], "edit")
  ELSE Return(Notice(r, "replaceFailed"))

\* lines 429-436 and 453-456: editor.edit returns
EditReturns(i) ==
  /\ inv[i].pc = "edit"
  /\ \E outcome \in (IF calm THEN {"applied"}
                      ELSE {"applied", "refused", "throws"}) :
       LET r == inv[i]
       IN  CASE outcome = "applied" ->
                  /\ editor' = [editor EXCEPT
                       !.doc = ReplaceRange(editor.doc, r.originalSelection,
                                            r.aiResponse),
                       !.sel = LET s == OffsetAt(editor.doc,
                                          <<r.originalSelection[1],
                                            r.originalSelection[2]>>)
                               IN  <<s, s + Len(r.aiResponse)>>]
                  /\ inv' = [inv EXCEPT ![i] = AfterEdit(r, TRUE)]
             [] outcome = "refused" ->
                  /\ inv' = [inv EXCEPT ![i] = AfterEdit(r, FALSE)]
                  /\ UNCHANGED editor
             [] OTHER ->
                  /\ inv' = [inv EXCEPT ![i] = Throw(r)]
                  /\ UNCHANGED editor
  /\ UNCHANGED <<gateVars, clipboard, fixedVars, cachedCodebaseContext,
                 ratedOrPrompted, clock, sentinels, ratingShown, started,
                 envSteps>>

\* lines 436-452: clipboard copy, re-selection, notification, rating
EditClipboardWriteReturns(i) ==
  /\ inv[i].pc = "editClip"
  /\ \E ok \in Successes(calm) :
       LET r == inv[i]
           ns == NewSelection(r.originalSelection, r.aiResponse)
           r1 == Success(Ev(Ev(r, "clipWrite"), "reselect"), ratedOrPrompted)
       IN  IF ok
           THEN /\ clipboard' = r.aiResponse
                /\ editor' = [editor EXCEPT !.sel =
                     << OffsetAt(editor.doc, <<ns[1], ns[2]>>),
                        OffsetAt(editor.doc, <<ns[3], ns[4]>>) >>]
                /\ inv' = [inv EXCEPT ![i] = r1]
                /\ ratingShown' = ratingShown + (IF r1.pc = "rating" THEN 1 ELSE 0)
           ELSE /\ inv' = [inv EXCEPT ![i] = Throw(r)]
                /\ UNCHANGED <<clipboard, editor, ratingShown>>
  /\ UNCHANGED <<gateVars, fixedVars, cachedCodebaseContext, ratedOrPrompted,
                 clock, sentinels, started, envSteps>>

\* the paste keystroke sent whether or not the clipboard write succeeded
AutoPasteKeystrokeAnyway(r, written) ==
  IF written
  THEN Key(Ev([r EXCEPT !.pc = "pasteExec"], "clipWrite"), "pasteKey")
  ELSE Key([r EXCEPT !.pc = "pasteExec"], "pasteKey")

\* autoPaste lines 1199-1222: the keystroke of the platform follows the
\* awaited clipboard write; lines 1227-1230: a write that throws skips it
\* (the operation "clipWrite" of a run is a write that succeeded)
AutoPasteKeystroke(r, written) ==
  IF written
  THEN Key(Ev([r EXCEPT !.pc = "pasteExec"], "clipWrite"), "pasteKey")
  ELSE r

\* autoPaste lines 1199-1222 and 1227-1230: clipboard write, paste keystroke
PasteClipboardWriteReturns(i) ==
  /\ inv[i].pc = "pasteWrite"
  /\ \E ok \in Successes(calm) :
       LET r  == AutoPasteKeystroke(inv[i], ok)
           r1 == IF r.pc = "pasteExec" THEN r
                 ELSE Success(r, ratedOrPrompted)
       IN  /\ clipboard' = IF ok THEN inv[i].aiResponse ELSE clipboard
           /\ inv' = [inv EXCEPT ![i] = r1]
           /\ ratingShown' = ratingShown + (IF r1.pc = "rating" THEN 1 ELSE 0)
  /\ UNCHANGED <<gateVars, editor, fixedVars, cachedCodebaseContext,
                 ratedOrPrompted, clock, sentinels, started, envSteps>>

\* the clipboard emptied when the paste keystroke failed
ClipboardAfterPasteLost(clip, pasteSuccessful) ==
  IF pasteSuccessful THEN clip ELSE <<>>

\* autoPaste lines 1204-1226: whatever the keystroke command returned, only
\* a log line follows; the clipboard is not written again
ClipboardAfterPaste(clip, pasteSuccessful) == clip

\* autoPaste lines 1204-1226, then lines 460-462
PasteExecReturns(i) ==
  /\ inv[i].pc = "pasteExec"
  /\ \E pasteSuccessful \in Successes(calm) :
       clipboard' = ClipboardAfterPaste(clipboard, pasteSuccessful)
  /\ LET r1 == Success(inv[i], ratedOrPrompted)
     IN  /\ inv' = [inv EXCEPT ![i] = r1]
         /\ ratingShown' = ratingShown + (IF r1.pc = "rating" THEN 1 ELSE 0)
  /\ UNCHANGED <<gateVars, editor, fixedVars, cachedCodebaseContext,
                 ratedOrPrompted, clock, sentinels, started, envSteps>>

\* maybePromptForRating lines 1252-1260: the user answers the rating prompt
RatingReturns(i) ==
  /\ inv[i].pc = "rating"
  /\ ratedOrPrompted' = TRUE
  /\ inv' = [inv EXCEPT ![i] = Return(inv[i])]
  /\ UNCHANGED <<gateVars, hostVars, fixedVars, cachedCodebaseContext, clock,
                 sentinels, ratingShown, started, envSteps>>

(* ------------------------------------------------------------------ *)
(* The user and the other applications                                  *)
(* ------------------------------------------------------------------ *)
\* a handler is between its first look at the editor (line 344, at the end
\* of the gate, which reads neither the editor nor the clipboard) and its
\* last step: what the user or another application does before is another
\* initial state, and what they do after is not seen by the handler
Running ==
  \E i \in Primary : inv[i].pc \notin {"idle", "auth", "token", "usage", "done"}

\* the user activates or leaves the editor, or changes the selection
UserChangesEditor ==
  /\ Running
  /\ envSteps < MaxEnvSteps
  /\ envSteps' = envSteps + 1
  /\ \E a \in BOOLEAN, s \in Selections(editor.doc) :
       /\ <<a, s>> # <<editor.active, editor.sel>>
       /\ editor' = [editor EXCEPT !.active = a, !.sel = s]
  /\ UNCHANGED <<gateVars, clipboard, fixedVars, cachedCodebaseContext,
                 ratedOrPrompted, clock, inv, sentinels, ratingShown, started>>

\* the user types a character in the active editor: it takes the place of
\* the selection (at the cursor when the selection is empty) and the cursor
\* stands behind it
UserTypes ==
  /\ Running
  /\ editor.active
  /\ envSteps < MaxEnvSteps
  /\ envSteps' = envSteps + 1
  /\ editor' = [editor EXCEPT
       !.doc = SubSeq(editor.doc, 1, editor.sel[1]) \o <<"z">>
                 \o SubSeq(editor.doc, editor.sel[2] + 1, Len(editor.doc)),
       !.sel = <<editor.sel[1] + 1, editor.sel[1] + 1>>]
  /\ UNCHANGED <<gateVars, clipboard, fixedVars, cachedCodebaseContext,
                 ratedOrPrompted, clock, inv, sentinels, ratingShown, started>>

\* another application (or the user) writes the clipboard
ClipboardChanges ==
  /\ Running
  /\ envSteps < MaxEnvSteps
  /\ envSteps' = envSteps + 1
  /\ \E t \in ClipTexts \cup {Blank} :
       /\ t # clipboard
       /\ clipboard' = t
  /\ UNCHANGED <<gateVars, editor, fixedVars, cachedCodebaseContext,
                 ratedOrPrompted, clock, inv, sentinels, ratingShown, started>>

\* the steps of a running handler
Handler(i) ==
  \/ CheckUserAccessReturns(i)
  \/ GetStoredTokenReturns(i)
  \/ UsageCheckReturns(i)
  \/ CopySnapshotReturns(i)
  \/ CopyExecReturns(i)
  \/ PollReturns(i)
  \/ SettleReturns(i)
  \/ ClipFallbackReturns(i)
  \/ CodebaseContextReturns(i)
  \/ ResponseEnds(i)
  \/ RequestErrors(i)
  \/ RequestTimesOut(i)
  \/ LateResponse(i)
  \/ EditReturns(i)
  \/ EditClipboardWriteReturns(i)
  \/ PasteClipboardWriteReturns(i)
  \/ PasteExecReturns(i)
  \/ RatingReturns(i)

\* the user runs the command for the first time after activation
FirstInvocation(i) ==
  /\ started = 0
  /\ Start(i, clock)
  /\ UNCHANGED <<hostVars, cachedCodebaseContext>>

\* the user runs the command again when the last run has ended: at once or
\* more than the 5 minutes of the caches later, with the clipboard as they
\* have left it in between and with no editor or an editor with a selection
NextInvocation(i) ==
  /\ started < MaxInvocations
  /\ IF started = 0
     THEN FirstInvocation(i)
     ELSE \E c \in ClipTexts, later \in BOOLEAN,
             e \in {x \in Editors : x.active => x.sel # <<0, 0>>} :
            /\ Start(i, IF later THEN clock + AuthCacheTTL + 1 ELSE clock)
            /\ clipboard' = c
            /\ editor' = e
            /\ cachedCodebaseContext' =
                 IF later THEN Null ELSE cachedCodebaseContext

\* one invocation of a signed-up user of the free plan with the Supabase
\* configuration present: the steps after the gate read neither the token
\* nor the configuration (aiCall posts to the proxy of line 1031), and the
\* gate is taken with every token and without the configuration in
\* SpecGate and SpecRepeat
InitOne == Init /\ configured = TRUE /\ userToken = "free"

\* one invocation, with the user and the other applications acting while
\* it runs
Next ==
  \/ \E i \in Primary : FirstInvocation(i) \/ Handler(i)
  \/ UserChangesEditor
  \/ ClipboardChanges

Spec == InitOne /\ [][Next]_vars

\* invocations one after the other, nothing acting while one runs, on macOS
\* (the other platforms differ in the command line of the keystrokes only)
InitRepeat == Init /\ platform = "darwin"

NextRepeat == \E i \in Primary : NextInvocation(i) \/ Handler(i)

SpecRepeat == InitRepeat /\ [][NextRepeat]_vars

\* the delivery on the editor route alone, entered with any selection of the
\* document and any of the responses that pass the leak check
DeliveryResponses ==
  { Refined, TwoLines, <<"x">>, <<"a","\n","\n","b">>, NoContent }

InitDelivery ==
  /\ authStatusCache = "true"
  /\ lastAuthCheck = AuthCacheTTL + 1
  /\ usageCheckCounter = 1
  /\ lastUsageAllowed = "true"
  /\ usageCheckedFor = "free"
  /\ cachedCodebaseContext = "known"
  /\ userToken = "free"
  /\ storedToken = "free"
  /\ ratedOrPrompted = FALSE
  /\ configured = TRUE
  /\ platform = "darwin"
  /\ calm = FALSE
  /\ mayAnswerEmpty = FALSE
  /\ clipboard = <<>>
  /\ \E a \in 0..Len(DocText), b \in 0..Len(DocText) :
       /\ a < b
       /\ editor = [active |-> TRUE, doc |-> DocText, sel |-> <<a, b>>]
  /\ clock = AuthCacheTTL + 1
  /\ \E response \in DeliveryResponses :
       inv = [i \in Procs |->
               IF i \in Primary
               THEN DeliveryStart(
                      [FreshRun EXCEPT !.hasEditor = TRUE, !.method = 1,
                                       !.result = "running",
                                       !.atStart = SelText(editor),
                                       !.atStartSel = SelectionOf(editor),
                                       !.selectedText = SelText(editor),
                                       !.originalSelection = SelectionOf(editor),
                                       !.promise = "resolved", !.req = "ended",
                                       !.aiResponse = response,
                                       !.leaked = "false"])
               ELSE FreshRun]
  /\ sentinels = <<>>
  /\ ratingShown = 0
  /\ started = 1
  /\ envSteps = 0

NextDelivery ==
  \E i \in Primary :
    EditReturns(i) \/ EditClipboardWriteReturns(i) \/ RatingReturns(i)

SpecDelivery == InitDelivery /\ [][NextDelivery]_vars

\* the access gate on its own: the first run of the command of a user who
\* holds any of the tokens or none, up to the decision of checkUsageLimit
InitGate ==
  /\ authStatusCache = Null
  /\ lastAuthCheck = 0
  /\ usageCheckCounter = 0
  /\ lastUsageAllowed = Null
  /\ usageCheckedFor = Null
  /\ cachedCodebaseContext = Null
  /\ userToken \in GateTokens
  /\ storedToken \in {userToken, Null}
  /\ ratedOrPrompted = FALSE
  /\ configured \in BOOLEAN
  /\ platform = "darwin"
  /\ calm = FALSE
  /\ mayAnswerEmpty = FALSE
  /\ clipboard \in ClipTexts
  /\ editor \in Editors
  /\ clock = AuthCacheTTL + 1
  /\ inv = [i \in Procs |-> FreshRun]
  /\ sentinels = <<>>
  /\ ratingShown = 0
  /\ started = 0
  /\ envSteps = 0

NextGate ==
  \E i \in Primary :
    \/ FirstInvocation(i)
    \/ CheckUserAccessReturns(i)
    \/ GetStoredTokenReturns(i)
    \/ UsageCheckReturns(i)

SpecGate == InitGate /\ [][NextGate]_vars

\* the activation of the extension with promptr.autoValidate set, and the
\* first run of the command, which the user may start before the check of
\* the activation has returned
Activation == [FreshRun EXCEPT !.pc = "activation", !.result = "running"]

InitActivate ==
  /\ authStatusCache = Null
  /\ lastAuthCheck = 0
  /\ usageCheckCounter = 0
  /\ lastUsageAllowed = Null
  /\ usageCheckedFor = Null
  /\ cachedCodebaseContext = Null
  /\ userToken \in GateTokens
  /\ storedToken \in {userToken, Null}
  /\ ratedOrPrompted = FALSE
  /\ configured \in BOOLEAN
  /\ platform = "darwin"
  /\ calm = FALSE
  /\ mayAnswerEmpty = FALSE
  /\ clipboard = <<>>
  /\ editor \in Editors
  /\ clock = AuthCacheTTL + 1
  /\ inv = [i \in Procs |-> IF i \in Primary THEN FreshRun ELSE Activation]
  /\ sentinels = <<>>
  /\ ratingShown = 0
  /\ started = 0
  /\ envSteps = 0

NextActivate ==
  \/ \E i \in Procs \ Primary : ActivationCheckReturns(i)
  \/ NextGate

SpecActivate == InitActivate /\ [][NextActivate]_vars

\* token-auth.ts enterAccessTokenCommand, run between two runs of
\* generatePrompt: the input box, validateAccessToken, and the token stored
\* only when access is granted; the record keeps the token stored before
\* and the number of invocations started before
EnterAccessTokenCommand(i) ==
  /\ \A j \in Primary : inv[j].pc \in {"idle", "done"}
  /\ \E token \in Tokens \cup {Null}, access \in Successes(calm) :
       LET c == Ev([FreshRun EXCEPT !.seq = started,
                                    !.token = storedToken,
                                    !.result = "running"], "showInputBox")
           result == validateAccessToken(token, configured, access)
       IN  IF token = Null
           THEN /\ inv' = [inv EXCEPT ![i] = Return(c)]
                /\ UNCHANGED storedToken
           ELSE IF result.access
           THEN /\ storedToken' = token
                /\ inv' = [inv EXCEPT ![i] =
                     Return(Ev([c EXCEPT !.validation = result], "storeToken"))]
           ELSE /\ inv' = [inv EXCEPT ![i] =
                     Return(Notice([c EXCEPT !.validation = result],
                                   "invalidToken"))]
                /\ UNCHANGED storedToken
  /\ UNCHANGED <<authStatusCache, lastAuthCheck, usageCheckCounter,
                 lastUsageAllowed, usageCheckedFor, hostVars, fixedVars,
                 cachedCodebaseContext, ratedOrPrompted, clock, sentinels,
                 ratingShown, started, envSteps>>

\* the user runs the command once more, at once or more than the 5 minutes
\* of the auth cache later
AccountInvocation(i) ==
  /\ started < MaxAccountRuns
  /\ \E later \in BOOLEAN :
       /\ later => started > 0 /\ clock <= MaxWaits * (AuthCacheTTL + 1)
       /\ Start(i, IF later THEN clock + AuthCacheTTL + 1 ELSE clock)
  /\ UNCHANGED <<hostVars, cachedCodebaseContext>>

\* the gate over many invocations of a user who has nothing to refine: no
\* editor, an empty clipboard and a platform without keystrokes, so that
\* every run that passes the gate ends with 'Please select some text to
\* refine first.'; between the runs the user may enter a token
InitAccount ==
  /\ authStatusCache = Null
  /\ lastAuthCheck = 0
  /\ usageCheckCounter = 0
  /\ lastUsageAllowed = Null
  /\ usageCheckedFor = Null
  /\ cachedCodebaseContext = Null
  /\ userToken = "free"
  /\ storedToken \in {userToken, Null}
  /\ ratedOrPrompted = FALSE
  /\ configured \in BOOLEAN
  /\ platform = "freebsd"
  /\ calm = FALSE
  /\ mayAnswerEmpty = FALSE
  /\ clipboard = <<>>
  /\ editor = [active |-> FALSE, doc |-> DocText, sel |-> <<0, 0>>]
  /\ clock = AuthCacheTTL + 1
  /\ inv = [i \in Procs |-> FreshRun]
  /\ sentinels = <<>>
  /\ ratingShown = 0
  /\ started = 0
  /\ envSteps = 0

NextAccount ==
  \/ \E i \in Primary :
       \/ AccountInvocation(i)
       \/ CheckUserAccessReturns(i)
       \/ GetStoredTokenReturns(i)
       \/ UsageCheckReturns(i)
       \/ CopySnapshotReturns(i)
       \/ SettleReturns(i)
       \/ ClipFallbackReturns(i)
  \/ \E i \in Procs \ Primary : EnterAccessTokenCommand(i)

SpecAccount == InitAccount /\ [][NextAccount]_vars

\* the editor route from the acquisition to the delivery: a run whose gate
\* was passed on the cached decisions, started with any selection of the
\* document; while the request is out the user types or moves the
\* selection, and the endpoint may answer with empty content
InitEdit ==
  /\ authStatusCache = "true"
  /\ lastAuthCheck = AuthCacheTTL + 1
  /\ usageCheckCounter = 2
  /\ lastUsageAllowed = "true"
  /\ usageCheckedFor = "free"
  /\ cachedCodebaseContext = "known"
  /\ userToken = "free"
  /\ storedToken = "free"
  /\ ratedOrPrompted = FALSE
  /\ configured = TRUE
  /\ platform = "darwin"
  /\ calm = TRUE
  /\ mayAnswerEmpty = TRUE
  /\ clipboard = <<>>
  /\ \E a \in 0..Len(DocText), b \in 0..Len(DocText) :
       /\ a < b
       /\ editor = [active |-> TRUE, doc |-> DocText, sel |-> <<a, b>>]
  /\ clock = AuthCacheTTL + 1
  /\ inv = [i \in Procs |->
             IF i \in Primary
             THEN UsageDecided(
                    [FreshRun EXCEPT !.now = clock, !.seq = 2,
                                     !.result = "running",
                                     !.authCached = TRUE,
                                     !.authDecision = "true",
                                     !.token = "free",
                                     !.usageCached = TRUE],
                    lastUsageAllowed, editor)
             ELSE FreshRun]
  /\ sentinels = <<>>
  /\ ratingShown = 0
  /\ started = 2
  /\ envSteps = 0

NextEdit ==
  \/ \E i \in Primary :
       \/ CodebaseContextReturns(i)
       \/ ResponseEnds(i)
       \/ EditReturns(i)
       \/ EditClipboardWriteReturns(i)
       \/ RatingReturns(i)
  \/ UserChangesEditor
  \/ UserTypes

SpecEdit == InitEdit /\ [][NextEdit]_vars

\* the leak check alone, evaluated again and again on responses and
\* sentinels in any order; each of the two records keeps the last
\* evaluation made for it
LeakResponses ==
  UNION { { Trim(c) : c \in Contents(SentinelOf(rand)) } : rand \in RandTags }

\* a pattern object kept between the evaluations whose position stays
\* behind the match it found last
LeakCheckSticky(earlier, aiResponse, sentinel) ==
  Leaked(aiResponse, sentinel) /\ earlier.leaked # "true"

\* line 412: aiResponse.includes(sentinel) || /.../i.test(aiResponse), with
\* a pattern literal without g flag, after the evaluation `earlier`
LeakCheck(earlier, aiResponse, sentinel) == Leaked(aiResponse, sentinel)

InitLeak ==
  /\ authStatusCache = "true"
  /\ lastAuthCheck = AuthCacheTTL + 1
  /\ usageCheckCounter = 1
  /\ lastUsageAllowed = "true"
  /\ usageCheckedFor = "free"
  /\ cachedCodebaseContext = "known"
  /\ userToken = "free"
  /\ storedToken = "free"
  /\ ratedOrPrompted = FALSE
  /\ configured = TRUE
  /\ platform = "darwin"
  /\ calm = FALSE
  /\ mayAnswerEmpty = FALSE
  /\ clipboard = <<>>
  /\ editor = [active |-> FALSE, doc |-> DocText, sel |-> <<0, 0>>]
  /\ clock = AuthCacheTTL + 1
  /\ inv = [i \in Procs |-> FreshRun]
  /\ sentinels = <<>>
  /\ ratingShown = 0
  /\ started = 0
  /\ envSteps = 0

LeakCheckRuns(i) ==
  /\ started < MaxChecks
  /\ started' = started + 1
  /\ \E rand \in RandTags, aiResponse \in LeakResponses :
       LET sentinel == generateSentinel(rand)
           earlier == inv[CHOOSE j \in Procs : j # i]
       IN  inv' = [inv EXCEPT ![i] =
             [FreshRun EXCEPT
                !.sentinel = sentinel, !.aiResponse = aiResponse,
                !.checkedWith = sentinel,
                !.leaked = BoolStr(LeakCheck(earlier, aiResponse, sentinel))]]
  /\ UNCHANGED <<gateVars, hostVars, fixedVars, cachedCodebaseContext,
                 ratedOrPrompted, clock, sentinels, ratingShown, envSteps>>

NextLeak == \E i \in Procs : LeakCheckRuns(i)

SpecLeak == InitLeak /\ [][NextLeak]_vars

\* the user runs the command, and runs it once more while the first run is
\* still awaiting
OverlapInvocation(i) ==
  /\ inv[i].pc = "idle"
  /\ \A j \in Procs \ {i} : inv[j].pc # "done"
  /\ Start(i, clock)
  /\ UNCHANGED <<hostVars, cachedCodebaseContext>>

NextOverlap == \E i \in Procs : OverlapInvocation(i) \/ Handler(i)

SpecOverlap == InitOverlap /\ [][NextOverlap]_vars


(* ------------------------------------------------------------------ *)
(* What the runs have done                                              *)
(* ------------------------------------------------------------------ *)
Runs == {inv[i] : i \in Procs}

Did(r, e) == \E k \in DOMAIN r.trace : r.trace[k] = <<"op", e>>
Shown(r, n) == \E k \in DOMAIN r.trace : r.trace[k] = <<"notice", n>>

\* the operations of a run, in order, without the notices
RECURSIVE OpsOf(_)
OpsOf(t) ==
  IF t = <<>> THEN <<>>
  ELSE IF Head(t)[1] = "op" THEN <<Head(t)[2]>> \o OpsOf(Tail(t))
  ELSE OpsOf(Tail(t))

\* the operations of a run before its first operation e (all, if none)
RECURSIVE OpsUntil(_, _)
OpsUntil(ops, e) ==
  IF ops = <<>> \/ Head(ops) = e THEN <<>>
  ELSE <<Head(ops)>> \o OpsUntil(Tail(ops), e)

DeliveryOps == {"edit", "clipWrite", "reselect", "pasteKey"}
Delivered(r) == \E e \in DeliveryOps : Did(r, e)

(* ------------------------------------------------------------------ *)
(* C1: text acquisition tries the editor selection, then the clipboard  *)
(* read after the copy probe, then the clipboard, then the full         *)
(* document, and takes the first that yields text: a source is used     *)
(* only if every source before it yielded nothing, and the sources      *)
(* after it are not read.                                               *)
(* ------------------------------------------------------------------ *)
C1_StrictOrder ==
  \A r \in Runs :
    /\ r.method = 1 =>
         /\ r.atStart # NullText /\ r.selectedText = r.atStart
         /\ r.src.probe = Unread /\ r.src.clip = Unread /\ r.src.doc = Unread
    /\ r.method = 2 =>
         /\ r.atStart = NullText
         /\ r.src.probe # NullText /\ r.selectedText = r.src.probe
         /\ r.src.clip = Unread /\ r.src.doc = Unread
    /\ r.method = 3 =>
         /\ r.atStart = NullText /\ r.src.probe = NullText
         /\ r.src.clip # NullText /\ r.selectedText = r.src.clip
         /\ r.src.doc = Unread
    /\ r.method = 4 =>
         /\ r.atStart = NullText /\ r.src.probe = NullText
         /\ r.src.clip = NullText
         /\ r.src.doc # <<>> /\ r.selectedText = r.src.doc
    /\ Did(r, "acquireEnd") /\ r.method = 0 =>
         /\ r.atStart = NullText /\ r.src.probe = NullText
         /\ r.src.clip = NullText /\ r.src.doc \in {Unread, <<>>}
         /\ r.selectedText = <<>> /\ ~Did(r, "requestWritten")
    /\ Did(r, "requestWritten") => r.method \in 1..4

C1_Witness ==
  \E r \in Runs : r.method = 3 /\ Did(r, "requestWritten")

(* ------------------------------------------------------------------ *)
(* C2: when the active editor has a non-empty selection as acquisition  *)
(* starts, the captured text is exactly the selected text,              *)
(* originalSelection is that selection, and no copy keystroke is        *)
(* dispatched and the clipboard is not read.                            *)
(* ------------------------------------------------------------------ *)
C2_EditorSelectionExact ==
  \A r \in Runs :
    r.atStart # NullText /\ Did(r, "acquireStart") =>
      /\ Did(r, "acquireEnd")
      /\ r.selectedText = r.atStart
      /\ r.originalSelection = r.atStartSel
      /\ r.originalSelection # Undefined
      /\ ~Did(r, "copyKey") /\ ~Did(r, "clipRead")

C2_Witness ==
  \E r \in Runs :
    r.atStart # NullText /\ Did(r, "requestWritten") /\ r.pc = "request"


(* ------------------------------------------------------------------ *)
(* C3 as stated: every invocation that reaches acquisition has called   *)
(* checkUserAccess, getStoredToken and checkUsageLimit, in that order.  *)
(* ------------------------------------------------------------------ *)
C3_AllThreeCalled ==
  \A r \in Runs :
    Did(r, "acquireStart") =>
      OpsUntil(OpsOf(r.trace), "acquireStart")
        = <<"checkUserAccess", "getStoredToken", "checkUsageLimit">>

\* the gate calls an invocation makes: checkUserAccess unless the access
\* decision is cached, getStoredToken, checkUsageLimit unless the usage
\* decision is cached
AccessOps(r) == IF r.authCached THEN <<>> ELSE <<"checkUserAccess">>
UsageOps(r) == IF r.usageCached THEN <<>> ELSE <<"checkUsageLimit">>
GateOps(r) == AccessOps(r) \o <<"getStoredToken">> \o UsageOps(r)

(* ------------------------------------------------------------------ *)
(* C3 amended: before acquisition begins the access decision            *)
(* (checkUserAccess, or its cached result), then getStoredToken, then   *)
(* the usage decision (checkUsageLimit, or its cached result) are       *)
(* taken in that order; a false access decision, a missing token or a   *)
(* false usage decision ends the invocation there, with no later gate   *)
(* step, no acquisition and no model request.                           *)
(* ------------------------------------------------------------------ *)
C3_GateOrder ==
  \A r \in Runs :
    /\ Did(r, "acquireStart") =>
         /\ OpsUntil(OpsOf(r.trace), "acquireStart") = GateOps(r)
         /\ r.authDecision = "true" /\ r.token # Null
         /\ r.usageDecision = "true"
    /\ r.authDecision = "false" =>
         r.pc = "done" /\ OpsOf(r.trace) = AccessOps(r)
    /\ Did(r, "getStoredToken") /\ r.pc # "token" /\ r.token = Null =>
         /\ r.pc = "done"
         /\ OpsOf(r.trace) = AccessOps(r) \o <<"getStoredToken">>
    /\ r.usageDecision = "false" =>
         r.pc = "done" /\ OpsOf(r.trace) = GateOps(r)
    /\ Did(r, "requestWritten") => Did(r, "acquireStart")

C3_Witness ==
  \E r \in Runs :
    Did(r, "acquireStart") /\ r.authCached /\ r.usageCached

(* ------------------------------------------------------------------ *)
(* C4: when the usage decision is "limit reached" the invocation ends   *)
(* before acquisition: no clipboard read, no copy or paste keystroke,   *)
(* no clipboard write and no model request.                             *)
(* ------------------------------------------------------------------ *)
C4_LimitStopsBeforeAcquisition ==
  \A r \in Runs :
    r.usageDecision = "false" =>
      /\ r.pc = "done"
      /\ ~Did(r, "acquireStart") /\ ~Did(r, "clipRead")
      /\ ~Did(r, "copyKey") /\ ~Did(r, "pasteKey")
      /\ ~Did(r, "clipWrite") /\ ~Did(r, "requestWritten")
      /\ r.req = FreshRun.req /\ r.selectedText = FreshRun.selectedText

C4_Witness ==
  \E r \in Runs : r.usageDecision = "false" /\ r.usageCached

(* ------------------------------------------------------------------ *)
(* C5: when the leak check finds a leak the response is not delivered:  *)
(* no clipboard write, no editor edit, no paste keystroke; the blocked  *)
(* warning is shown and the invocation ends.                            *)
(* ------------------------------------------------------------------ *)
C5_LeakBlocksDelivery ==
  \A r \in Runs :
    r.leaked = "true" =>
      /\ ~Did(r, "clipWrite") /\ ~Did(r, "edit")
      /\ ~Did(r, "pasteKey") /\ ~Did(r, "reselect")
      /\ Shown(r, "blocked") /\ ~Shown(r, "ready")
      /\ r.pc = "done"

C5_Witness ==
  \E r \in Runs : r.leaked = "true" /\ Did(r, "leakCheck")

\* the phase an operation belongs to
Phase(e) ==
  CASE e \in {"checkUserAccess", "getStoredToken", "checkUsageLimit"} -> 0
    [] e \in {"acquireStart", "clipRead", "copyKey"} -> 1
    [] e = "acquireEnd" -> 2
    [] e = "promptBuilt" -> 3
    [] e = "requestWritten" -> 4
    [] e \in {"responseEnd", "requestDestroyed"} -> 5
    [] e = "leakCheck" -> 6
    [] e \in DeliveryOps -> 7

(* ------------------------------------------------------------------ *)
(* C6: the phases of an invocation are strictly sequential:             *)
(* acquisition completes before the prompt is built, the prompt is      *)
(* built before the request is written, the response has ended before   *)
(* the leak check runs, and the leak check completes before delivery.   *)
(* ------------------------------------------------------------------ *)
C6_PhasesSequential ==
  \A r \in Runs :
    LET ops == OpsOf(r.trace) IN
      /\ \A j \in 1..(Len(ops) - 1) :
           LET p == Phase(ops[j])
               q == Phase(ops[j + 1])
           IN  p <= q /\ (p \in 2..6 => p < q)
      /\ Delivered(r) => Did(r, "leakCheck") /\ r.leaked = "false"
      /\ Did(r, "leakCheck") => Did(r, "responseEnd") /\ r.promise = "resolved"
      /\ Did(r, "responseEnd") => Did(r, "requestWritten")
      /\ Did(r, "requestWritten") => Did(r, "promptBuilt")
      /\ Did(r, "promptBuilt") => Did(r, "acquireEnd") /\ Truthy(r.selectedText)

C6_Witness ==
  \E r \in Runs : Did(r, "reselect") /\ Shown(r, "ready")

(* ------------------------------------------------------------------ *)
(* C7: when the request times out it is destroyed, the aiCall promise   *)
(* rejects, the generic failure message is shown and nothing is         *)
(* delivered, also when response data arrives afterwards.               *)
(* ------------------------------------------------------------------ *)
C7_TimeoutAborts ==
  \A r \in Runs :
    r.timedOut =>
      /\ r.req = "destroyed" /\ Did(r, "requestDestroyed")
      /\ r.promise = "rejected"
      /\ Shown(r, "aiFailed") /\ ~Shown(r, "ready")
      /\ ~Did(r, "leakCheck") /\ ~Delivered(r)
      /\ r.pc = "done"

C7_Witness ==
  \E r \in Runs : r.timedOut /\ r.lateData

(* ------------------------------------------------------------------ *)
(* C8 as stated: no failure inside generatePrompt leaves it as a        *)
(* rejected promise.                                                    *)
(* ------------------------------------------------------------------ *)
C8_NeverRejects ==
  \A r \in Runs : r.result # "rejected"

(* ------------------------------------------------------------------ *)
(* C9 as stated: the sentinels of two consecutive requests differ.      *)
(* ------------------------------------------------------------------ *)
C9_SentinelsDiffer ==
  \A k \in 1..(Len(sentinels) - 1) : sentinels[k] # sentinels[k + 1]

\* pat occurs in text, characters compared with Same
OccursIn(text, pat, Same(_, _)) ==
  \E off \in 0..(Len(text) - Len(pat)) :
    \A k \in 1..Len(pat) : Same(text[off + k], pat[k])

SameChar(a, b) == a = b

SameLetter(a, b) ==
  a = b \/ \E k \in 1..26 : {a, b} = {LowerCase[k], UpperCase[k]}

(* ------------------------------------------------------------------ *)
(* C10: the leak check declares a leak exactly when the response holds  *)
(* the request's sentinel as a substring, or one of the two section     *)
(* headers in any letter case.                                          *)
(* ------------------------------------------------------------------ *)
C10_LeakExactly ==
  \A r \in Runs :
    r.leaked # Null =>
      (r.leaked = "true" <=>
         \/ OccursIn(r.aiResponse, r.sentinel, SameChar)
         \/ OccursIn(r.aiResponse, CoreObjectiveHeader, SameLetter)
         \/ OccursIn(r.aiResponse, UserContextHeader, SameLetter))

C10_Witness ==
  \E r \in Runs :
    /\ r.leaked = "true"
    /\ ~OccursIn(r.aiResponse, r.sentinel, SameChar)
    /\ ~OccursIn(r.aiResponse, CoreObjectiveHeader, SameChar)
    /\ OccursIn(r.aiResponse, CoreObjectiveHeader, SameLetter)


\* the system prompt of the request a run has in flight
InFlight(r) == r.post.system # NullText

\* t starts with p
StartsWith(t, p) == Len(t) >= Len(p) /\ SubSeq(t, 1, Len(p)) = p

(* ------------------------------------------------------------------ *)
(* C11 as stated: the system prompt starts with the sentinel, and when  *)
(* it holds a codebase-context block that block is last: no part of     *)
(* the fixed instruction template follows it.                           *)
(* ------------------------------------------------------------------ *)
C11_CodebaseBlockLast ==
  \A r \in Runs :
    InFlight(r) =>
      /\ StartsWith(r.post.system, r.sentinel)
      /\ \A k \in DOMAIN r.post.system :
           r.post.system[k] = CodebaseHeader =>
             \A j \in DOMAIN r.post.system :
               j > k => r.post.system[j] \notin
                          {IntegrationPriority, ExecuteImmediately}


(* ------------------------------------------------------------------ *)
(* C12: for each request one and the same sentinel is the prefix of     *)
(* the system prompt sent, the single element of the stop list and the  *)
(* value the leak check of that request's response is made with; each   *)
(* of two overlapping invocations has its own.                          *)
(* ------------------------------------------------------------------ *)
C12_OneSentinelPerRequest ==
  \A r \in Runs :
    /\ InFlight(r) =>
         /\ Truthy(r.sentinel)
         /\ StartsWith(r.post.system, r.sentinel)
         /\ r.post.stop = <<r.sentinel>>
    /\ r.leaked # Null =>
         /\ r.checkedWith = r.sentinel
         /\ r.post.stop = <<r.checkedWith>>

C12_Witness ==
  /\ \A i \in Procs : inv[i].leaked # Null
  /\ inv["h1"].sentinel # inv["h2"].sentinel
  /\ inv["h1"].leaked = "true" /\ inv["h2"].leaked = "false"


\* the text of the document in a range of positions <<sl, sc, el, ec>>
TextIn(doc, range) ==
  SubSeq(doc, OffsetAt(doc, <<range[1], range[2]>>) + 1,
         OffsetAt(doc, <<range[3], range[4]>>))

(* ------------------------------------------------------------------ *)
(* C13 as stated: the response replaces the original selection in the   *)
(* editor exactly when the text came from the editor selection; text    *)
(* from the chat surface, the clipboard or the full document is         *)
(* delivered by a clipboard write and a paste keystroke.                *)
(* ------------------------------------------------------------------ *)
C13_RouteBySource ==
  \A r \in Runs :
    /\ r.route = "editor" <=> (r.route # "none" /\ r.method = 1)
    /\ r.route = "paste" /\ r.pc \notin {"pasteWrite"} =>
         Did(r, "clipWrite") /\ Did(r, "pasteKey")

(* ------------------------------------------------------------------ *)
(* C13 amended: the response replaces the original selection exactly    *)
(* when the source was classified as the editor selection, that is      *)
(* when the editor had a non-empty selection whose text equals the      *)
(* captured text as acquisition returned: always for text taken from    *)
(* the editor selection, and also for text read from the clipboard      *)
(* that equals the selection made meanwhile.  Otherwise the response    *)
(* is written to the clipboard and, if that write succeeded, a paste    *)
(* keystroke is dispatched, and no edit is issued.                      *)
(* ------------------------------------------------------------------ *)
C13_RouteByClassification ==
  \A r \in Runs :
    /\ r.route = "editor" <=>
         (r.route # "none" /\ r.hasEditor /\ r.originalSelection # Undefined)
    /\ r.method = 1 /\ Did(r, "acquireEnd") => r.originalSelection # Undefined
    /\ r.method = 4 => r.originalSelection = Undefined
    /\ r.originalSelection # Undefined =>
         /\ r.method \in 1..3 /\ r.hasEditor
         /\ ~Did(r, "edit") => TextIn(editor.doc, r.originalSelection)
                                 = r.selectedText
    /\ r.route = "editor" => ~Did(r, "pasteKey")
    /\ r.route = "paste" =>
         /\ ~Did(r, "edit") /\ ~Did(r, "reselect")
         /\ Did(r, "pasteKey") => Did(r, "clipWrite")
         /\ Did(r, "clipWrite") => Did(r, "pasteKey")

C13_Witness ==
  \E r \in Runs : r.method = 2 /\ r.route = "editor" /\ Did(r, "edit")


(* ------------------------------------------------------------------ *)
(* C14: after a delivery on the editor route the new selection covers   *)
(* exactly the inserted response: it starts at the start of the         *)
(* original selection and ends where the inserted response ends, for    *)
(* responses of one line and of several lines and every start.          *)
(* ------------------------------------------------------------------ *)
C14_ReselectsInsertedText ==
  \A r \in Runs :
    Did(r, "reselect") =>
      /\ PositionAt(editor.doc, editor.sel[1])
           = <<r.originalSelection[1], r.originalSelection[2]>>
      /\ editor.sel[2] = editor.sel[1] + Len(r.aiResponse)
      /\ SubSeq(editor.doc, editor.sel[1] + 1, editor.sel[2]) = r.aiResponse

C14_Witness ==
  \E r \in Runs :
    /\ Did(r, "reselect")
    /\ r.aiResponse = TwoLines
    /\ r.originalSelection[2] > 0
    /\ r.originalSelection[1] # r.originalSelection[3]


(* ------------------------------------------------------------------ *)
(* C15: on the editor route the handler replaces the range, then writes *)
(* the response to the clipboard, then re-selects the inserted text;    *)
(* the clipboard write and the re-selection happen only after an edit   *)
(* the host accepted, and no paste keystroke is sent.                   *)
(* ------------------------------------------------------------------ *)
C15_EditThenCopyThenSelect ==
  \A r \in Runs :
    r.route = "editor" =>
      /\ ~Did(r, "pasteKey")
      /\ \A k \in DOMAIN r.trace :
           /\ r.trace[k] = <<"op", "clipWrite">> =>
                k > 1 /\ r.trace[k - 1] = <<"op", "edit">>
           /\ r.trace[k] = <<"op", "reselect">> =>
                k > 1 /\ r.trace[k - 1] = <<"op", "clipWrite">>

C15_Witness ==
  \E r \in Runs :
    /\ r.route = "editor"
    /\ r.method = 1
    /\ Did(r, "edit") /\ Did(r, "clipWrite") /\ Did(r, "reselect")
    /\ clipboard = r.aiResponse


(* ------------------------------------------------------------------ *)
(* C16: on the paste route the clipboard write has completed before the *)
(* paste keystroke is dispatched, and no paste keystroke is dispatched  *)
(* in a run whose clipboard write failed.                               *)
(* ------------------------------------------------------------------ *)
C16_WriteBeforePaste ==
  \A r \in Runs :
    \A k \in DOMAIN r.trace :
      r.trace[k] = <<"op", "pasteKey">> =>
        /\ r.route = "paste"
        /\ k > 1 /\ r.trace[k - 1] = <<"op", "clipWrite">>

C16_Witness ==
  /\ \E r \in Runs :
       /\ r.route = "paste" /\ r.pc = "pasteExec"
       /\ Did(r, "clipWrite") /\ Did(r, "pasteKey")
       /\ clipboard = r.aiResponse
  /\ envSteps = 0


(* ------------------------------------------------------------------ *)
(* C17: during acquisition the extension never writes the clipboard:    *)
(* the only step of the copy probe that changes it is the copy          *)
(* keystroke reaching the focused application, which puts that          *)
(* application's selection on it; a probe whose keystroke failed, the   *)
(* poll, the settle delay and the clipboard reads leave it unchanged.   *)
(* ------------------------------------------------------------------ *)
AcquisitionPcs == {"copySnap", "copyExec", "poll", "settle", "clipFallback"}

C17_ProbeOnlyCopies ==
  [][ \A i \in Procs :
        (inv[i].pc \in AcquisitionPcs /\ inv'[i] # inv[i]) =>
          IF inv[i].pc = "copyExec" /\ inv'[i].pc = "poll"
          THEN clipboard' \in FocusTexts \cup {clipboard}
          ELSE clipboard' = clipboard ]_vars

C17_Witness ==
  /\ \E r \in Runs :
       /\ r.pc = "settle"
       /\ Did(r, "copyKey")
       /\ clipboard = ChatSel
  /\ envSteps = 0


(* ------------------------------------------------------------------ *)
(* C18: with no active editor, a clipboard that already holds the text  *)
(* Draft and a copy probe that leaves the clipboard as it was,          *)
(* acquisition falls through to the clipboard fallback (Method 3) and   *)
(* returns Draft as clipboard text, not as chat-surface text.           *)
(* Draft is the only text the clipboard holds at the start and is never *)
(* the selection of the focused application, so a run without an editor *)
(* and without interference that captured Draft is such a run.          *)
(* ------------------------------------------------------------------ *)
PreCopied(r) ==
  /\ ~r.hasEditor
  /\ envSteps = 0
  /\ Did(r, "copyKey")
  /\ r.selectedText = Draft

C18_ClipboardFallbackTaken ==
  \A r \in Runs : PreCopied(r) => r.method = 3


(* ------------------------------------------------------------------ *)
(* C19: on the paste route, once autoPaste has returned the clipboard   *)
(* holds the response (no other application having written it since).   *)
(* ------------------------------------------------------------------ *)
AutoPasteReturned(r) == r.route = "paste" /\ Shown(r, "ready")

DeliveryFailed(r) ==
  \/ r.route = "editor" /\ r.pc = "done" /\ ~Did(r, "reselect")
  \/ r.route = "paste" /\ r.pc # "pasteWrite" /\ ~Did(r, "clipWrite")

FailureShown(r) ==
  \E k \in DOMAIN r.trace :
    r.trace[k][1] = "notice" /\ r.trace[k][2] # "ready"

C20_FailureIsReported ==
  \A r \in Runs :
    DeliveryFailed(r) => FailureShown(r) /\ ~Shown(r, "ready")


(* ------------------------------------------------------------------ *)
(* C21: the text handed to the prompt builder is never empty: when the  *)
(* editor selection, the copy probe, the clipboard and the full         *)
(* document all yield no text, the invocation shows the error           *)
(* 'Please select some text to refine first.', builds no prompt, sends  *)
(* no request and delivers nothing.                                     *)
(* ------------------------------------------------------------------ *)
C21_NoEmptyInput ==
  \A r \in Runs :
    /\ (Did(r, "promptBuilt") \/ r.pc = "codebase") => r.selectedText # <<>>
    /\ r.post # NoPost => r.post.user = r.selectedText /\ r.post.user # <<>>
    /\ (Did(r, "acquireEnd") /\ r.selectedText = <<>>) =>
         /\ Shown(r, "selectText") /\ ~Shown(r, "ready")
         /\ ~Did(r, "promptBuilt") /\ ~Did(r, "requestWritten")
         /\ ~Delivered(r)
         /\ r.pc = "done" /\ r.route = "none"

C21_Witness ==
  \E r \in Runs :
    /\ Shown(r, "selectText")
    /\ r.hasEditor
    /\ r.src.sel = NullText /\ r.src.probe = NullText
    /\ r.src.clip = NullText /\ r.src.doc = <<>>


(* ------------------------------------------------------------------ *)
(* C22: every invocation the gate rejects, on a fresh or on a cached    *)
(* decision, is rejected before any request to the model and shows the  *)
(* user a message with a remediation action (enter token, upgrade).     *)
(* ------------------------------------------------------------------ *)
GateRejected(r) == r.authDecision = "false" \/ r.usageDecision = "false"

RemediationShown(r) ==
  Shown(r, "enterToken") \/ Shown(r, "invalidToken") \/ Shown(r, "usageLimit")

C22_RejectionIsShown ==
  \A r \in Runs :
    GateRejected(r) =>
      /\ ~Did(r, "promptBuilt") /\ ~Did(r, "requestWritten")
      /\ RemediationShown(r)


(* ------------------------------------------------------------------ *)
(* C23: a non-2xx status or an unparsable body (the response ended and  *)
(* the promise was rejected), a transport error and a timeout all end   *)
(* the invocation with the same generic message 'AI request failed.     *)
(* Please try again.' and with no other message of the request: the     *)
(* status, the body and the error text are not shown. Nothing is        *)
(* delivered and the command returns normally.                          *)
(* ------------------------------------------------------------------ *)
RequestFailed(r) == r.promise = "rejected"

C23_GenericFailureMessage ==
  \A r \in Runs :
    RequestFailed(r) =>
      /\ r.req \in {"ended", "errored", "destroyed"}
      /\ r.trace[Len(r.trace)] = <<"notice", "aiFailed">>
      /\ \A k \in DOMAIN r.trace :
           r.trace[k][1] = "notice" =>
             r.trace[k][2] \in {"aiFailed", "invalidToken"}
      /\ ~Did(r, "leakCheck") /\ ~Delivered(r)
      /\ r.pc = "done" /\ r.result = "fulfilled"

C23_Witness ==
  \E r \in Runs :
    /\ RequestFailed(r)
    /\ r.req = "ended"
    /\ Did(r, "responseEnd")
    /\ Shown(r, "aiFailed")


(* ------------------------------------------------------------------ *)
(* C24: a 2xx response whose body parses but has no                     *)
(* choices[0].message.content is not a failure: aiCall resolves with    *)
(* the placeholder 'Error: no content', which passes the leak check and *)
(* is handed to the delivery like any other response.                   *)
(* ------------------------------------------------------------------ *)
C24_NoContentIsDelivered ==
  \A r \in Runs :
    r.noContent =>
      /\ r.promise = "resolved" /\ r.aiResponse = NoContent
      /\ Did(r, "leakCheck") /\ r.leaked = "false"
      /\ ~Shown(r, "aiFailed") /\ ~Shown(r, "blocked")
      /\ r.route \in {"editor", "paste"}
      /\ (Did(r, "clipWrite") /\ envSteps = 0) => clipboard = NoContent

C24_Witness ==
  \E r \in Runs :
    /\ r.noContent
    /\ Did(r, "edit")
    /\ TextIn(editor.doc, NewSelection(r.originalSelection, NoContent))
         = NoContent
    /\ Shown(r, "ready")


(* ------------------------------------------------------------------ *)
(* C25: when the acquired text holds one of the override phrases, in    *)
(* any letter case, the invocation ends silently right after the        *)
(* acquisition: no prompt is built, no request is sent, nothing is      *)
(* written to the clipboard, edited or pasted, and no message is shown  *)
(* for it.                                                              *)
(* ------------------------------------------------------------------ *)
HasOverridePhrase(text) ==
  \E p \in OverridePhrases : OccursIn(text, p, SameLetter)

C25_OverrideAbortsSilently ==
  \A r \in Runs :
    (Did(r, "acquireEnd") /\ HasOverridePhrase(r.selectedText)) =>
      /\ r.pc = "done" /\ r.result = "fulfilled"
      /\ r.trace[Len(r.trace)] = <<"op", "acquireEnd">>
      /\ \A k \in DOMAIN r.trace :
           r.trace[k][1] = "notice" => r.trace[k][2] = "invalidToken"
      /\ r.post = NoPost /\ r.route = "none"
      /\ ~Did(r, "promptBuilt") /\ ~Did(r, "requestWritten")
      /\ ~Delivered(r)

C25_Witness ==
  \E r \in Runs :
    /\ r.selectedText = Suspicious
    /\ r.method = 2
    /\ r.pc = "done"
    /\ clipboard = Suspicious


(* ------------------------------------------------------------------ *)
(* C26: the keystroke simulator never throws and never retries: one     *)
(* invocation starts at most one copy keystroke command and at most one *)
(* paste keystroke command, and whether the command succeeds or fails   *)
(* autoCopy returns to the acquisition, which completes, and autoPaste  *)
(* returns to the handler, which shows its notification and returns.    *)
(* ------------------------------------------------------------------ *)
C26_OneKeystrokeNoThrow ==
  \A r \in Runs :
    /\ r.keys.copyKey <= 1 /\ r.keys.pasteKey <= 1
    /\ r.keys.copyKey = 1 <=> Did(r, "copyKey")
    /\ r.keys.pasteKey = 1 <=> Did(r, "pasteKey")
    /\ (Did(r, "copyKey") /\ r.pc = "done") => Did(r, "acquireEnd")
    /\ r.route = "paste" => r.result # "rejected"
    /\ (r.route = "paste" /\ r.pc \in {"rating", "done"}) => Shown(r, "ready")

C26_Witness ==
  \E r \in Runs :
    /\ r.keys.copyKey = 1 /\ r.keys.pasteKey = 1
    /\ r.method = 3
    /\ r.pc = "done"


C28_InsertModeDecides ==
  \A mode \in InsertModes :
    \A r \in Runs :
      Did(r, "edit") =>
        LET s == OffsetAt(editor.doc,
                          <<r.originalSelection[1], r.originalSelection[2]>>)
        IN  IF mode = "replace"
            THEN SubSeq(editor.doc, s + 1, s + Len(r.aiResponse))
                   = r.aiResponse
            ELSE SubSeq(editor.doc, s + 1, s + Len(r.selectedText))
                   = r.selectedText

\* C29: a token of the premium token set is granted access with status
\* 'pro' by validateAccessToken and is allowed by checkUsageLimit, neither
\* of them issuing a request, and a token outside the set is granted by
\* neither without the answer of the backend; the premium token set is the
\* set of token-auth.ts or the set of extension.ts, whichever fits the run
PremiumBypass(r, S) ==
  LET v == r.validation
      returned == r.usageDecision # Null /\ ~r.usageCached
  IN  /\ v.token \in S => v.access /\ v.status = "pro" /\ ~v.asked
      /\ r.token \in S => ~r.usageAsked
      /\ returned /\ r.token \in S => r.usageDecision = "true"
      /\ v.token \notin S /\ v.access => v.asked
      /\ returned /\ r.token \notin S /\ r.usageDecision = "true"
           => r.usageAsked
C30_RatingPromptOnce == ratingShown <= 1

\* C31: the access check of the activation is silent: it shows no input box
\* and no error message, whether a token is stored or not and whatever the
\* validation answers
C31_ActivationIsSilent ==
  \A i \in Procs \ Primary :
    /\ ~Did(inv[i], "showInputBox")
    /\ \A k \in DOMAIN inv[i].trace : inv[i].trace[k][1] # "notice"

\* the step in which the usage step of an invocation that passed the access
\* and token steps ends
UsageStepEnds(i) ==
  /\ inv[i].pc \in {"token", "usage"}
  /\ inv'[i].pc \notin {"token", "usage"}
  /\ inv'[i].token # Null

\* the usage check is made exactly when no decision is cached or the
\* counter is a multiple of 10
UsageCheckedWhenDue(i) ==
  Did(inv'[i], "checkUsageLimit")
    <=> (lastUsageAllowed = Null \/ usageCheckCounter % UsageCheckEvery = 0)

C33_CachedDecisionForItsToken ==
  \A i \in Primary :
    inv[i].usageCached => inv[i].token = usageCheckedFor

\* C34: the invocation that follows an enterAccessTokenCommand that
\* validated and stored a token is not turned away on an access decision
\* cached before the token was entered
C34_EnteredTokenPassesAccess ==
  \A i \in Primary, c \in Procs \ Primary :
    /\ Did(inv[c], "storeToken")
    /\ inv[i].seq = inv[c].seq + 1
    => ~(inv[i].authCached /\ inv[i].authDecision = "false")

\* C35: checkUserAccess deletes the stored token only when the backend
\* answered that the token has no access; when the validation could not be
\* completed the token stays
C35_TokenDeletedOnlyOnDenial ==
  [][storedToken # Null /\ storedToken' # storedToken =>
       \E i \in Procs :
         /\ inv'[i].validation.token = storedToken
         /\ inv'[i].validation.asked
         /\ ~inv'[i].validation.access]_vars

\* C36: when a call of checkUserAccess returns, no other call running: if it
\* returns true the storage holds the token validateAccessToken granted
\* access to during the call, if it returns false the storage holds no token
C36_ReturnMatchesStorage ==
  [][\A i \in Primary :
       inv[i].pc = "auth" /\ inv'[i].pc # "auth" =>
         /\ inv'[i].authDecision \in {"true", "false"}
         /\ inv'[i].authDecision = "true" =>
              /\ storedToken' # Null
              /\ inv'[i].validation.token = storedToken'
              /\ inv'[i].validation.access
         /\ inv'[i].authDecision = "false" => storedToken' = Null]_vars

\* a call that returned true after a first token was denied and the user
\* chose 'Enter New Token'
C36_Witness ==
  \E i \in Primary :
    /\ ~inv[i].authCached
    /\ inv[i].authDecision = "true"
    /\ Shown(inv[i], "invalidToken")
    /\ storedToken = inv[i].validation.token

\* the usage check of the run r was made and could not be completed: the
\* configuration is missing (no request is made) or the request did not
\* yield a decision
UsageCheckNotCompleted(r) ==
  /\ Did(r, "checkUsageLimit")
  /\ r.token \notin VALID_PREMIUM_TOKENS
  /\ ~r.usageAsked \/ r.usageDecision = Null

C38_ReplacedTextIsSentText ==
  [][\A i \in Primary :
       inv[i].pc = "edit" /\ Did(inv'[i], "edit") =>
         RangeText(editor.doc, inv[i].originalSelection) = inv[i].selectedText]_vars

\* C39: a delivery never writes empty text: a run that has written to the
\* editor or to the clipboard, or pasted, holds a response that is not empty
C39_NoEmptyDelivery ==
  \A i \in Primary :
    Delivered(inv[i]) => inv[i].aiResponse # <<>>

====
